---- MODULE Spec2Model ----
(***************************************************************************)
(* Model of the BIRD schema-introspection, domain-classification and       *)
(* type-mapping pipeline (bird_database_mapper.py and the type converters  *)
(* of the Snowflake loaders).                                              *)
(*                                                                         *)
(* Python str values are TLA+ strings; Len, SubSeq and \o act on them as   *)
(* on sequences of characters.  Python lists are sequences, dicts are      *)
(* functions together with their insertion order.                          *)
(***************************************************************************)
EXTENDS Integers, Sequences, FiniteSets, TLC

(***************************************************************************)
(* Bounds of the model.                                                    *)
(***************************************************************************)
\* longest table_names list passed to a direct classify_database call
MaxTableNames == 2
\* longest column_names list passed to a direct classify_database call
MaxColumnNames == 2
\* most database files in one directory
MaxFiles == 2
\* most map_all_databases calls made on one BirdDatabaseMapper instance
MaxCalls == 2
\* declared types carry widths 10, 20, ..., 10 * MaxWidth and scales 0..MaxWidth
MaxWidth == 2

(***************************************************************************)
(* str primitives.                                                         *)
(***************************************************************************)
UpperLetters == "ABCDEFGHIJKLMNOPQRSTUVWXYZ"
LowerLetters == "abcdefghijklmnopqrstuvwxyz"

\* the one-character string at position i of s
CharAt(s, i) == SubSeq(s, i, i)

\* the case-folding tables: upper-case letter -> lower-case letter and back
LowerOf ==
    [c \in {CharAt(UpperLetters, i) : i \in 1..Len(UpperLetters)} |->
        CharAt(LowerLetters,
               CHOOSE i \in 1..Len(UpperLetters) : CharAt(UpperLetters, i) = c)]

UpperOf ==
    [c \in {CharAt(LowerLetters, i) : i \in 1..Len(LowerLetters)} |->
        CharAt(UpperLetters,
               CHOOSE i \in 1..Len(LowerLetters) : CharAt(LowerLetters, i) = c)]

LowerChar(c) == IF c \in DOMAIN LowerOf THEN LowerOf[c] ELSE c

UpperChar(c) == IF c \in DOMAIN UpperOf THEN UpperOf[c] ELSE c

\* str.lower()
RECURSIVE Lower(_)
Lower(s) ==
    IF Len(s) = 0 THEN s
    ELSE LowerChar(CharAt(s, 1)) \o Lower(SubSeq(s, 2, Len(s)))

\* str.upper()
RECURSIVE Upper(_)
Upper(s) ==
    IF Len(s) = 0 THEN s
    ELSE UpperChar(CharAt(s, 1)) \o Upper(SubSeq(s, 2, Len(s)))

\* decimal rendering of a natural number, as an f-string renders it
Digits == "0123456789"

RECURSIVE DecimalStr(_)
DecimalStr(n) ==
    IF n < 10 THEN CharAt(Digits, n + 1)
    ELSE DecimalStr(n \div 10) \o CharAt(Digits, (n % 10) + 1)

\* Python's  sub in s  on strings
Contains(sub, s) ==
    \E i \in 1..(Len(s) - Len(sub) + 1) : SubSeq(s, i, i + Len(sub) - 1) = sub

\* str.startswith and bytes.startswith
StartsWith(s, prefix) == Len(prefix) <= Len(s) /\ SubSeq(s, 1, Len(prefix)) = prefix

(***************************************************************************)
(* BirdDatabaseMapper.__init__: the domain taxonomy.  DomainOrder is the   *)
(* insertion order of the domain_mappings dict, which is its iteration     *)
(* order.  The per-domain 'databases' lists are state (domain_databases),  *)
(* and so are the 'keywords' lists of the instance (mapping_keywords).      *)
(***************************************************************************)
\* a taxonomy defined in another order: government ahead of financial
DomainOrderGovernmentFirst ==
    <<"government", "healthcare", "education", "retail",
      "sports", "technology", "entertainment", "transportation",
      "financial", "real_estate", "human_resources", "manufacturing",
      "telecom", "insurance", "food_service", "energy",
      "agriculture", "legal", "nonprofit", "tourism",
      "research">>

DomainOrder ==
    <<"financial", "healthcare", "education", "retail",
      "sports", "technology", "entertainment", "transportation",
      "government", "real_estate", "human_resources", "manufacturing",
      "telecom", "insurance", "food_service", "energy",
      "agriculture", "legal", "nonprofit", "tourism",
      "research">>

domain_keywords ==
    [ financial |->
          <<"bank", "finance", "trading", "stock", "money", "credit", "loan", "payment", "investment">>,
      healthcare |->
          <<"hospital", "medical", "patient", "health", "doctor", "clinic", "medicine", "treatment">>,
      education |->
          <<"school", "student", "university", "college", "academic", "course", "class", "grade">>,
      retail |->
          <<"store", "shop", "retail", "customer", "product", "sales", "order", "purchase">>,
      sports |->
          <<"game", "sport", "team", "player", "match", "league", "tournament", "athlete">>,
      technology |->
          <<"software", "tech", "computer", "system", "app", "web", "platform", "network">>,
      entertainment |->
          <<"movie", "film", "music", "artist", "show", "concert", "media", "theater">>,
      transportation |->
          <<"car", "flight", "train", "transport", "airline", "vehicle", "shipping", "logistics">>,
      government |->
          <<"government", "public", "city", "county", "state", "federal", "municipal", "civic">>,
      real_estate |->
          <<"property", "house", "building", "real_estate", "apartment", "rent", "lease">>,
      human_resources |->
          <<"employee", "hr", "payroll", "staff", "personnel", "workforce", "hiring">>,
      manufacturing |->
          <<"factory", "production", "manufacturing", "supply", "warehouse", "inventory">>,
      telecom |->
          <<"telecom", "phone", "mobile", "network", "communication", "cellular">>,
      insurance |->
          <<"insurance", "policy", "claim", "coverage", "premium", "risk">>,
      food_service |->
          <<"restaurant", "food", "menu", "dining", "cafe", "recipe", "nutrition">>,
      energy |->
          <<"energy", "power", "utility", "electric", "gas", "solar", "renewable">>,
      agriculture |->
          <<"farm", "agriculture", "crop", "livestock", "farming", "rural">>,
      legal |->
          <<"legal", "law", "court", "justice", "attorney", "police", "crime">>,
      nonprofit |->
          <<"nonprofit", "charity", "social", "volunteer", "donation", "community">>,
      tourism |->
          <<"travel", "tourism", "hotel", "vacation", "booking", "destination">>,
      research |->
          <<"research", "science", "laboratory", "experiment", "study", "academic">> ]

table_patterns ==
    [ financial |->
          <<"account", "transaction", "payment", "balance", "credit", "debit">>,
      healthcare |->
          <<"patient", "doctor", "diagnosis", "treatment", "medical_record">>,
      education |->
          <<"student", "course", "grade", "enrollment", "teacher", "class">>,
      retail |->
          <<"customer", "order", "product", "inventory", "sale", "purchase">>,
      sports |->
          <<"player", "team", "game", "score", "match", "season">>,
      transportation |->
          <<"flight", "passenger", "route", "schedule", "vehicle">>,
      entertainment |->
          <<"movie", "actor", "artist", "album", "song", "show">>,
      government |->
          <<"citizen", "permit", "license", "department", "official">>,
      real_estate |->
          <<"property", "listing", "agent", "buyer", "seller", "mortgage">> ]

\* info['description'] of each entry of self.domain_mappings
domain_descriptions ==
    [ financial |->
          "Banking, trading, investments, financial services",
      healthcare |->
          "Hospitals, medical records, patient management",
      education |->
          "Schools, universities, student management systems",
      retail |->
          "Retail stores, e-commerce, sales management",
      sports |->
          "Sports leagues, games, player statistics",
      technology |->
          "Software systems, technology platforms",
      entertainment |->
          "Movies, music, entertainment industry",
      transportation |->
          "Airlines, transportation, logistics",
      government |->
          "Government agencies, public services",
      real_estate |->
          "Real estate, property management",
      human_resources |->
          "Human resources, employee management",
      manufacturing |->
          "Manufacturing, supply chain management",
      telecom |->
          "Telecommunications, mobile networks",
      insurance |->
          "Insurance companies, policy management",
      food_service |->
          "Restaurants, food service industry",
      energy |->
          "Energy companies, utilities",
      agriculture |->
          "Agriculture, farming operations",
      legal |->
          "Legal systems, law enforcement",
      nonprofit |->
          "Non-profit organizations, social services",
      tourism |->
          "Tourism, travel booking, hospitality",
      research |->
          "Scientific research, laboratories" ]

Domains == {DomainOrder[i] : i \in 1..Len(DomainOrder)}

\* self.table_patterns.get(domain, [])
TablePatternsGet(domain) ==
    IF domain \in DOMAIN table_patterns THEN table_patterns[domain] ELSE <<>>

(***************************************************************************)
(* BirdDatabaseMapper.classify_database.                                   *)
(***************************************************************************)
\* for needle in needles: if needle in haystack: score += points
\* (the amount the loop adds to score)
RECURSIVE MatchLoop(_, _, _)
MatchLoop(needles, haystack, points) ==
    IF needles = <<>> THEN 0
    ELSE (IF Contains(Head(needles), haystack) THEN points ELSE 0)
         + MatchLoop(Tail(needles), haystack, points)

\* for table in table_names: each pattern adds 5, each keyword adds 3
RECURSIVE TableLoop(_, _, _)
TableLoop(table_names, patterns, keywords) ==
    IF table_names = <<>> THEN 0
    ELSE LET table_lower == Lower(Head(table_names))
         IN  MatchLoop(patterns, table_lower, 5)
             + MatchLoop(keywords, table_lower, 3)
             + TableLoop(Tail(table_names), patterns, keywords)

\* a column loop that counts a column name once however often it is listed
RECURSIVE ColumnLoopDistinct(_, _)
ColumnLoopDistinct(column_names, keywords) ==
    IF column_names = <<>> THEN 0
    ELSE (IF \E i \in 2..Len(column_names) : column_names[i] = Head(column_names)
          THEN 0
          ELSE MatchLoop(keywords, Lower(Head(column_names)), 1))
         + ColumnLoopDistinct(Tail(column_names), keywords)

\* for column in column_names: each keyword adds 1
RECURSIVE ColumnLoop(_, _)
ColumnLoop(column_names, keywords) ==
    IF column_names = <<>> THEN 0
    ELSE MatchLoop(keywords, Lower(Head(column_names)), 1)
         + ColumnLoop(Tail(column_names), keywords)

\* the body of "for domain, info in self.domain_mappings.items()", keywords
\* being info['keywords']; an absent (None) or empty list is falsy and skips
\* its block
DomainScoreOf(keywords, domain, db_id, table_names, column_names) ==
    MatchLoop(keywords, Lower(db_id), 10)
    + (IF table_names # <<>>
       THEN TableLoop(table_names, TablePatternsGet(domain), keywords)
       ELSE 0)
    + (IF column_names # <<>> THEN ColumnLoop(column_names, keywords) ELSE 0)

\* the loop on an instance whose 'keywords' lists are keywords_of
ScoreAllOf(keywords_of, db_id, table_names, column_names) ==
    [domain \in Domains |->
        DomainScoreOf(keywords_of[domain], domain, db_id, table_names, column_names)]

\* on an instance as __init__ leaves it
DomainScore(domain, db_id, table_names, column_names) ==
    DomainScoreOf(domain_keywords[domain], domain, db_id, table_names, column_names)

ScoreAll(db_id, table_names, column_names) ==
    [domain \in Domains |-> DomainScore(domain, db_id, table_names, column_names)]

\* max(domain_scores.values())
MaxScore(scores) ==
    CHOOSE m \in {scores[d] : d \in DOMAIN scores} :
        \A d \in DOMAIN scores : scores[d] <= m

\* a scan that lets a later domain of equal score replace the earlier one
RECURSIVE MaxKeyLoopLast(_, _, _)
MaxKeyLoopLast(best, rest, scores) ==
    IF rest = <<>> THEN best
    ELSE MaxKeyLoopLast(IF scores[Head(rest)] >= scores[best] THEN Head(rest) ELSE best,
                        Tail(rest), scores)

\* max(domain_scores, key=domain_scores.get): the scan keeps the element seen
\* first unless a later one is strictly greater
RECURSIVE MaxKeyLoop(_, _, _)
MaxKeyLoop(best, rest, scores) ==
    IF rest = <<>> THEN best
    ELSE MaxKeyLoop(IF scores[Head(rest)] > scores[best] THEN Head(rest) ELSE best,
                    Tail(rest), scores)

MaxKey(scores) == MaxKeyLoop(Head(DomainOrder), Tail(DomainOrder), scores)

\* a selection without the zero-score fallback
PickDomainNoFallback(scores) == MaxKey(scores)

PickDomain(scores) ==
    IF MaxScore(scores) > 0 THEN MaxKey(scores) ELSE "general"

classify_database(db_id, table_names, column_names) ==
    PickDomain(ScoreAll(db_id, table_names, column_names))

(***************************************************************************)
(* The SQLite-to-Snowflake type converters.  A type_mapping dict is the    *)
(* sequence of its (key, value) items in insertion order.                  *)
(***************************************************************************)
\* a lookup that hands the upper-cased declared type back when no key matches
RECURSIVE FirstMatchEcho(_, _, _)
FirstMatchEcho(type_mapping, sqlite_upper, default) ==
    IF type_mapping = <<>> THEN sqlite_upper
    ELSE IF Contains(Head(type_mapping)[1], sqlite_upper) THEN Head(type_mapping)[2]
    ELSE FirstMatchEcho(Tail(type_mapping), sqlite_upper, default)

\* a lookup that goes through every item and keeps the value of the last key
\* that matches
RECURSIVE LastMatch(_, _, _)
LastMatch(type_mapping, sqlite_upper, default) ==
    IF type_mapping = <<>> THEN default
    ELSE IF Contains(type_mapping[Len(type_mapping)][1], sqlite_upper)
         THEN type_mapping[Len(type_mapping)][2]
    ELSE LastMatch(SubSeq(type_mapping, 1, Len(type_mapping) - 1), sqlite_upper, default)

\* for key, snowflake_type in type_mapping.items():
\*     if key in sqlite_upper: return snowflake_type
\* return default
RECURSIVE FirstMatch(_, _, _)
FirstMatch(type_mapping, sqlite_upper, default) ==
    IF type_mapping = <<>> THEN default
    ELSE IF Contains(Head(type_mapping)[1], sqlite_upper) THEN Head(type_mapping)[2]
    ELSE FirstMatch(Tail(type_mapping), sqlite_upper, default)

\* BirdDatabaseMapper._convert_sqlite_type
MapperTypeMapping ==
    << <<"INTEGER", "INTEGER">>,
       <<"TEXT", "VARCHAR(16777216)">>,
       <<"REAL", "FLOAT">>,
       <<"NUMERIC", "NUMERIC(38,2)">>,
       <<"BLOB", "VARIANT">> >>

Mapper_convert_sqlite_type(sqlite_type) ==
    FirstMatch(MapperTypeMapping, Upper(sqlite_type), "VARCHAR(16777216)")

\* the type_mapping shared, verbatim, by SnowflakeBirdMiniLoader and
\* SnowflakeBirdDataTestLoader
LoaderTypeMapping ==
    << <<"INTEGER", "INTEGER">>,
       <<"TEXT", "VARCHAR(16777216)">>,
       <<"VARCHAR", "VARCHAR(16777216)">>,
       <<"REAL", "FLOAT">>,
       <<"DECIMAL", "DECIMAL(15,2)">>,
       <<"DATE", "DATE">>,
       <<"DATETIME", "TIMESTAMP">>,
       <<"TIMESTAMP", "TIMESTAMP">> >>

\* SnowflakeBirdMiniLoader._convert_sqlite_type
MiniLoader_convert_sqlite_type(sqlite_type) ==
    LET sqlite_upper == Upper(sqlite_type)
    IN  IF Contains("VARCHAR(", sqlite_upper) THEN sqlite_type
        ELSE IF Contains("DECIMAL(", sqlite_upper) THEN sqlite_type
        ELSE FirstMatch(LoaderTypeMapping, sqlite_upper, "VARCHAR(16777216)")

\* SnowflakeBirdDataTestLoader._convert_sqlite_type_to_snowflake
DataTest_convert_sqlite_type_to_snowflake(sqlite_type) ==
    LET sqlite_upper == Upper(sqlite_type)
    IN  IF Contains("VARCHAR(", sqlite_upper) THEN sqlite_type
        ELSE IF Contains("DECIMAL(", sqlite_upper) THEN sqlite_type
        ELSE FirstMatch(LoaderTypeMapping, sqlite_upper, "VARCHAR(16777216)")

Converters == {"mapper", "mini_loader", "data_test"}

(***************************************************************************)
(* The SQLite files the mapper reads.  A file is                           *)
(*   [stem, suffix, valid, tables]; valid is whether the file is a SQLite  *)
(* database at all.  A table is [name, columns, row_count, foreign_keys],  *)
(* a column [name, type, pk], a foreign key [from, table, to].             *)
(***************************************************************************)
Col(name, type, pk) == [name |-> name, type |-> type, pk |-> pk]
Fk(from, table, to) == [from |-> from, table |-> table, to |-> to]
Table(name, columns, row_count, foreign_keys) ==
    [name |-> name, columns |-> columns, row_count |-> row_count,
     foreign_keys |-> foreign_keys]

CustomersTable ==
    Table("customers", <<Col("customer_id", "INTEGER", TRUE), Col("name", "TEXT", FALSE)>>,
          2, <<>>)

\* the two-table fixture: customers and accounts
FixtureDb ==
    [stem |-> "sample_financial", suffix |-> ".sqlite", valid |-> TRUE,
     tables |-> <<CustomersTable,
                  Table("accounts",
                        <<Col("account_id", "INTEGER", TRUE),
                          Col("customer_id", "INTEGER", FALSE),
                          Col("balance", "REAL", FALSE)>>,
                        3, <<Fk("customer_id", "customers", "customer_id")>>)>>]

BankDb ==
    [stem |-> "bank", suffix |-> ".sqlite", valid |-> TRUE,
     tables |-> <<Table("branch",
                        <<Col("branch_id", "INTEGER", TRUE),
                          Col("assets", "DECIMAL(15,2)", FALSE)>>,
                        1, <<>>)>>]

\* no taxonomy keyword or table pattern occurs in its names
PlainDb ==
    [stem |-> "xyz", suffix |-> ".db", valid |-> TRUE,
     tables |-> <<Table("log",
                        <<Col("id", "INTEGER", TRUE), Col("msg", "VARCHAR(20)", FALSE)>>,
                        0, <<>>)>>]

\* a file that is not a SQLite database
CorruptDb == [stem |-> "school", suffix |-> ".db", valid |-> FALSE, tables |-> <<>>]

\* a readable database whose second table is named by a reserved word
ReservedDb ==
    [stem |-> "shop", suffix |-> ".sqlite", valid |-> TRUE,
     tables |-> <<CustomersTable,
                  Table("order",
                        <<Col("order_id", "INTEGER", TRUE),
                          Col("customer_id", "INTEGER", FALSE)>>,
                        4, <<Fk("customer_id", "customers", "customer_id")>>)>>]

\* two databases whose stems and table names join to the same text:
\* "store" + "_" + "sales_q1" and "store_sales" + "_" + "q1"
StoreDb ==
    [stem |-> "store", suffix |-> ".sqlite", valid |-> TRUE,
     tables |-> <<Table("sales_q1",
                        <<Col("sale_id", "INTEGER", TRUE), Col("amount", "REAL", FALSE)>>,
                        3, <<>>)>>]

StoreSalesDb ==
    [stem |-> "store_sales", suffix |-> ".sqlite", valid |-> TRUE,
     tables |-> <<Table("q1",
                        <<Col("sale_id", "INTEGER", TRUE), Col("region", "TEXT", FALSE)>>,
                        5, <<>>)>>]

\* a second file of the stem "bank", under the other suffix the glob lists
BankCopyDb == [BankDb EXCEPT !.suffix = ".db"]

\* a database whose foreign key names a table it does not hold; SQLite
\* creates and reads such a schema without complaint
DanglingDb ==
    [stem |-> "clinic", suffix |-> ".sqlite", valid |-> TRUE,
     tables |-> <<Table("visit",
                        <<Col("visit_id", "INTEGER", TRUE),
                          Col("patient_id", "INTEGER", FALSE)>>,
                        1, <<Fk("patient_id", "patients", "patient_id")>>)>>]

\* files without a suffix, as an archive may unpack them: a database and a
\* saved web page
BareDb == [BankDb EXCEPT !.stem = "inventory", !.suffix = ""]

BarePage == [stem |-> "README", suffix |-> "", valid |-> FALSE, tables |-> <<>>]

\* a SQLite database that holds no table
EmptyDb == [stem |-> "empty", suffix |-> ".sqlite", valid |-> TRUE, tables |-> <<>>]

FilePool == {FixtureDb, BankDb, PlainDb, CorruptDb, ReservedDb, BankCopyDb, DanglingDb}

FileName(file) == file.stem \o file.suffix

(***************************************************************************)
(* SQLite's answer to the statements analyze_database_file builds by       *)
(* splicing the table name, unquoted, into the statement text.             *)
(***************************************************************************)
IdentifierChars == LowerLetters \o UpperLetters \o Digits \o "_"

SqliteReservedWords == {"order", "group", "table", "select", "index", "where"}

\* the statement parses only when the spliced name is a bare identifier
UnquotedNameParses(name) ==
    /\ Len(name) > 0
    /\ \A i \in 1..Len(name) : Contains(CharAt(name, i), IdentifierChars)
    /\ ~Contains(CharAt(name, 1), Digits)
    /\ Lower(name) \notin SqliteReservedWords

(***************************************************************************)
(* Python float arithmetic (IEEE-754 binary64, round to nearest, ties to   *)
(* even) on the non-negative values a complexity score takes.  A natural   *)
(* number of any size is the sequence of its bits, least significant       *)
(* first.  A float is [m, e] with value m * 2^e, kept in normal form: m    *)
(* has no zero bit at either end, and zero is [m |-> <<>>, e |-> 0].       *)
(* Equal values are then equal records.  The scores lie between 2^-4 and   *)
(* 2^31, far from the subnormal and overflow ranges, which are left out.   *)
(***************************************************************************)
\* bit i of a, zero beyond its length
Bit(a, i) == IF i <= Len(a) THEN a[i] ELSE 0

\* drop the zero bits at the high end
StripHigh(bits) ==
    LET ones == {i \in 1..Len(bits) : bits[i] = 1}
    IN  IF ones = {} THEN <<>>
        ELSE SubSeq(bits, 1, CHOOSE i \in ones : \A j \in ones : j <= i)

\* the bits of an int n, 0 <= n < 2^31
BitsOf(n) == StripHigh([i \in 1..31 |-> (n \div (2 ^ (i - 1))) % 2])

\* the carry into position i of a + b: some lower position produces a carry
\* and every position between passes it on
CarryInto(a, b, i) ==
    \E j \in 1..(i - 1) :
        /\ Bit(a, j) + Bit(b, j) = 2
        /\ \A k \in (j + 1)..(i - 1) : Bit(a, k) + Bit(b, k) >= 1

\* a + b
BigAdd(a, b) ==
    LET n == (IF Len(a) > Len(b) THEN Len(a) ELSE Len(b)) + 1
    IN  StripHigh([i \in 1..n |->
                      (Bit(a, i) + Bit(b, i) + (IF CarryInto(a, b, i) THEN 1 ELSE 0)) % 2])

\* a * 2^k
ShiftLeft(a, k) == [i \in 1..k |-> 0] \o a

\* a * b, by shift and add over the bits of the shorter factor
RECURSIVE BigMul(_, _)
BigMul(a, b) ==
    IF Len(b) > Len(a) THEN BigMul(b, a)
    ELSE IF b = <<>> THEN <<>>
    ELSE BigAdd(IF Head(b) = 1 THEN a ELSE <<>>, ShiftLeft(BigMul(a, Tail(b)), 1))

\* a < b: at the highest position where they differ, a has the zero
BigLess(a, b) ==
    \E i \in 1..Len(b) :
        /\ Bit(a, i) < Bit(b, i)
        /\ \A j \in (i + 1)..(IF Len(a) > Len(b) THEN Len(a) ELSE Len(b)) :
              Bit(a, j) = Bit(b, j)

\* the normal form of m * 2^e
Normal(m, e) ==
    LET bits == StripHigh(m)
        low == CHOOSE i \in 1..Len(bits) : bits[i] = 1 /\ \A j \in 1..(i - 1) : bits[j] = 0
    IN  IF bits = <<>> THEN [m |-> <<>>, e |-> 0]
        ELSE [m |-> SubSeq(bits, low, Len(bits)), e |-> e + low - 1]

\* the float nearest to m * 2^e: at most 53 significant bits are kept, a
\* remainder above half a unit rounds up, exactly half rounds to even
Round53(m, e) ==
    LET bits == StripHigh(m)
        k == Len(bits) - 53
    IN  IF k <= 0 THEN Normal(bits, e)
        ELSE LET kept == SubSeq(bits, k + 1, Len(bits))
                 half == bits[k] = 1
                 sticky == \E i \in 1..(k - 1) : bits[i] = 1
                 round_up == half /\ (sticky \/ kept[1] = 1)
             IN  Normal(IF round_up THEN BigAdd(kept, <<1>>) ELSE kept, e + k)

\* float(n) for an int n below 2^31
FloatOfInt(n) == Normal(BitsOf(n), 0)

\* the mantissas of x and y over their smaller exponent
Aligned(x, y) ==
    LET e == IF x.e < y.e THEN x.e ELSE y.e
    IN  [x |-> ShiftLeft(x.m, x.e - e), y |-> ShiftLeft(y.m, y.e - e), e |-> e]

\* x + y
FloatAdd(x, y) == Round53(BigAdd(Aligned(x, y).x, Aligned(x, y).y), Aligned(x, y).e)

\* x * y
FloatMul(x, y) == Round53(BigMul(x.m, y.m), x.e + y.e)

\* x < y
FloatLess(x, y) == BigLess(Aligned(x, y).x, Aligned(x, y).y)

HexDigits == "0123456789ABCDEF"

\* the bits of a hexadecimal numeral
RECURSIVE BigOfHex(_)
BigOfHex(h) ==
    IF Len(h) = 0 THEN <<>>
    ELSE LET digit == (CHOOSE i \in 1..16 : CharAt(HexDigits, i) = CharAt(h, Len(h))) - 1
         IN  <<digit % 2, (digit \div 2) % 2, (digit \div 4) % 2, digit \div 8>>
             \o BigOfHex(SubSeq(h, 1, Len(h) - 1))

\* the literal 0.1: 0x1.999999999999ap-4
OneTenth == Normal(BigOfHex("1999999999999A"), -56)

(***************************************************************************)
(* BirdDatabaseMapper._calculate_complexity_score:                         *)
(* (tables * 1.0) + (columns * 0.1) + (foreign_keys * 2.0), each int       *)
(* operand converted to float by the multiplication.                       *)
(***************************************************************************)
calculate_complexity_score(tables, columns, foreign_keys) ==
    FloatAdd(FloatAdd(FloatMul(FloatOfInt(tables), FloatOfInt(1)),
                      FloatMul(FloatOfInt(columns), OneTenth)),
             FloatMul(FloatOfInt(foreign_keys), FloatOfInt(2)))

(***************************************************************************)
(* BirdDatabaseMapper.analyze_database_file.                               *)
(***************************************************************************)
RECURSIVE SumSeq(_)
SumSeq(seq) == IF seq = <<>> THEN 0 ELSE Head(seq) + SumSeq(Tail(seq))

\* a table_info that leaves the foreign keys of the table out
TableInfoNoForeignKeys(table) ==
    [columns |-> [i \in 1..Len(table.columns) |-> table.columns[i].name],
     column_types |-> [i \in 1..Len(table.columns) |-> table.columns[i].type],
     primary_keys |->
         LET pk_columns == SelectSeq(table.columns, LAMBDA col : col.pk)
         IN  [i \in 1..Len(pk_columns) |-> pk_columns[i].name],
     row_count |-> table.row_count,
     foreign_keys |-> <<>>]

\* the three statements issued for one table, and the table_info dict built
TableInfo(table) ==
    [columns |-> [i \in 1..Len(table.columns) |-> table.columns[i].name],
     column_types |-> [i \in 1..Len(table.columns) |-> table.columns[i].type],
     primary_keys |->
         LET pk_columns == SelectSeq(table.columns, LAMBDA col : col.pk)
         IN  [i \in 1..Len(pk_columns) |-> pk_columns[i].name],
     row_count |-> table.row_count,
     foreign_keys |-> [i \in 1..Len(table.foreign_keys) |->
                          <<table.foreign_keys[i].from, table.foreign_keys[i].table,
                            table.foreign_keys[i].to>>]]

\* "for table in tables": the loop ends by an exception at the first table
\* whose statements SQLite rejects, and then nothing it gathered survives
RECURSIVE IntrospectLoop(_, _, _)
IntrospectLoop(tables, all_columns, table_details) ==
    IF tables = <<>>
    THEN [raised |-> FALSE, all_columns |-> all_columns, table_details |-> table_details]
    ELSE IF ~UnquotedNameParses(Head(tables).name)
    THEN [raised |-> TRUE, all_columns |-> <<>>, table_details |-> <<>>]
    ELSE LET table_info == TableInfo(Head(tables))
         IN  IntrospectLoop(Tail(tables),
                            all_columns \o table_info.columns,
                            Append(table_details, <<Head(tables).name, table_info>>))

\* the dict returned on success; table_details keeps the dict's insertion order
\* as a sequence of (table name, table_info) items
AnalysisResult(file, tables, all_columns, table_details) ==
    LET total_tables == Len(tables)
        total_columns == Len(all_columns)
        total_foreign_keys ==
            SumSeq([i \in 1..Len(table_details) |-> Len(table_details[i][2].foreign_keys)])
        total_rows ==
            SumSeq([i \in 1..Len(table_details) |-> table_details[i][2].row_count])
    IN  [db_id |-> file.stem,
         domain |-> classify_database(file.stem, tables, all_columns),
         file_path |-> FileName(file),
         tables |-> tables,
         table_count |-> total_tables,
         total_columns |-> total_columns,
         total_foreign_keys |-> total_foreign_keys,
         total_rows |-> total_rows,
         table_details |-> table_details,
         complexity_score |->
             calculate_complexity_score(total_tables, total_columns, total_foreign_keys)]

\* the whole call: [returns, closed, result].  returns is "dict" or "None";
\* closed is whether conn.close() was executed (line 270 is the only close, and
\* it is skipped when a statement raised); result is the dict, <<>> for None
analyze_database_file(file) ==
    IF ~file.valid
    THEN [returns |-> "None", closed |-> FALSE, result |-> <<>>]
    ELSE LET tables == [i \in 1..Len(file.tables) |-> file.tables[i].name]
             loop == IntrospectLoop(file.tables, <<>>, <<>>)
         IN  IF loop.raised
             THEN [returns |-> "None", closed |-> FALSE, result |-> <<>>]
             ELSE [returns |-> "dict", closed |-> TRUE,
                   result |-> AnalysisResult(file, tables, loop.all_columns,
                                             loop.table_details)]

\* analyze_database_file on every file of the pool, computed once: the call
\* reads nothing but the file
AnalysisOf == [file \in FilePool |-> analyze_database_file(file)]

(***************************************************************************)
(* The CREATE TABLE text: BirdDatabaseMapper._generate_table_ddl and the   *)
(* DDL blocks of the loaders.                                              *)
(***************************************************************************)
\* sep.join(parts)
RECURSIVE Join(_, _)
Join(sep, parts) ==
    IF parts = <<>> THEN ""
    ELSE IF Len(parts) = 1 THEN Head(parts)
    ELSE Head(parts) \o sep \o Join(sep, Tail(parts))

\* zip(a, b) stops with the shorter list
ZipLen(a, b) == IF Len(a) < Len(b) THEN Len(a) ELSE Len(b)

\* a column line that keeps the identifier as the catalog spells it
ColumnLineVerbatim(col_name, snowflake_type, is_pk) ==
    "    " \o col_name \o " " \o snowflake_type
    \o (IF is_pk THEN " PRIMARY KEY" ELSE "")

\* col_line = f"    {col_name.upper()} {snowflake_type}", then
\* col_line += " PRIMARY KEY" if is_pk
ColumnLine(col_name, snowflake_type, is_pk) ==
    "    " \o Upper(col_name) \o " " \o snowflake_type
    \o (IF is_pk THEN " PRIMARY KEY" ELSE "")

\* a generator that also writes one FOREIGN KEY clause per recorded foreign key
generate_table_ddl_with_foreign_keys(table_name, table_info) ==
    LET column_lines ==
            [i \in 1..ZipLen(table_info.columns, table_info.column_types) |->
                ColumnLine(table_info.columns[i],
                           Mapper_convert_sqlite_type(table_info.column_types[i]),
                           \E k \in 1..Len(table_info.primary_keys) :
                               table_info.primary_keys[k] = table_info.columns[i])]
        constraint_lines ==
            [i \in 1..Len(table_info.foreign_keys) |->
                "    FOREIGN KEY (" \o Upper(table_info.foreign_keys[i][1]) \o ") REFERENCES "
                \o Upper(table_info.foreign_keys[i][2])
                \o " (" \o Upper(table_info.foreign_keys[i][3]) \o ")"]
    IN  Join("\n", <<"CREATE OR REPLACE TABLE " \o Upper(table_name) \o " (",
                     Join(",\n", column_lines \o constraint_lines),
                     ");">>)

\* BirdDatabaseMapper._generate_table_ddl
generate_table_ddl(table_name, table_info) ==
    LET column_lines ==
            [i \in 1..ZipLen(table_info.columns, table_info.column_types) |->
                ColumnLine(table_info.columns[i],
                           Mapper_convert_sqlite_type(table_info.column_types[i]),
                           \E k \in 1..Len(table_info.primary_keys) :
                               table_info.primary_keys[k] = table_info.columns[i])]
    IN  Join("\n", <<"CREATE OR REPLACE TABLE " \o Upper(table_name) \o " (",
                     Join(",\n", column_lines),
                     ");">>)

\* f"BIRD_{db_name.upper()}_{table_name.upper()}"
SnowflakeTableName(db_name, table_name) ==
    "BIRD_" \o Upper(db_name) \o "_" \o Upper(table_name)

\* SnowflakeBirdMiniLoader.load_databases_to_snowflake: the DDL built from
\* the PRAGMA table_info rows of one table
MiniLoaderDdl(db_name, table) ==
    LET column_defs ==
            [i \in 1..Len(table.columns) |->
                ColumnLine(table.columns[i].name,
                           MiniLoader_convert_sqlite_type(table.columns[i].type),
                           table.columns[i].pk)]
    IN  Join("\n", <<"CREATE OR REPLACE TABLE "
                         \o SnowflakeTableName(db_name, table.name) \o " (",
                     Join(",\n", column_defs),
                     ")">>)

\* SnowflakeBirdDataTestLoader.create_tables_from_sqlite: the same block
DataTestDdl(db_name, table) ==
    LET column_defs ==
            [i \in 1..Len(table.columns) |->
                ColumnLine(table.columns[i].name,
                           DataTest_convert_sqlite_type_to_snowflake(table.columns[i].type),
                           table.columns[i].pk)]
    IN  Join("\n", <<"CREATE OR REPLACE TABLE "
                         \o SnowflakeTableName(db_name, table.name) \o " (",
                     Join(",\n", column_defs),
                     ")">>)

DdlGenerators == {"mapper", "mini_loader", "data_test"}

(***************************************************************************)
(* State.                                                                  *)
(***************************************************************************)
VARIABLES
    cl_pc,            \* classify_database call: "call" before, "return" after
    cl_db_id,         \* its argument db_id
    cl_table_names,   \* its argument table_names (<<>> also stands for None)
    cl_column_names,  \* its argument column_names (<<>> also stands for None)
    domain_scores,    \* its local dict domain_scores
    cl_domain,        \* its return value
    cl_returns,       \* the returns of the calls made with these arguments, each with
                      \* the number of map_all_databases calls made before it
    cv_sqlite_type,      \* the declared type handed to the type converters
    cv_snowflake_type,   \* converter -> its return value, NotCalled before the call
    map_pc,           \* map_all_databases: "idle", "loop", "summary", "returned", "raised"
    calls,            \* number of map_all_databases calls made on the instance
    sqlite_files,     \* its local list sqlite_files
    file_index,       \* number of files the "for db_file" loop has finished
    mapping_results,  \* its local dict mapping_results (the return value at the end)
    domain_databases, \* self.domain_mappings[domain]['databases'], per domain
    mapping_keywords, \* self.domain_mappings[domain]['keywords'], per domain
    schema_script,    \* generate_snowflake_schema_script on the results of the last call
    open_connections, \* names of the files whose SQLite connection is open
    map_exception,    \* the exception that ended the call, "none" otherwise
    sc_pc,            \* _calculate_complexity_score call: "call" before, "return" after
    sc_tables,        \* its argument tables
    sc_columns,       \* its argument columns
    sc_foreign_keys,  \* its argument foreign_keys
    sc_score,         \* its return value
    dl_db_name,       \* the database name handed to the DDL generators
    dl_table,         \* the source table handed to them
    dl_ddl,           \* generator -> the CREATE TABLE text it returned
    ld_pc,            \* loader run: "idle", "schemas", "next_db", "tables", "done",
                      \* "raised", "aborted"
    ld_loader,        \* the program that runs: full_loader, mini_loader or data_test
    ld_max_tables,    \* the full loader's max_tables; 0 also stands for None
    ld_databases,     \* the databases handed to the run, in iteration order
    ld_db_index,      \* number of databases the outer loop has finished
    ld_table_index,   \* number of tables of the current database the loop has finished
    ld_attempts,      \* the table iterations made: [db, table, outcome]
    ld_loaded,        \* the tables the program counted as loaded: <<db, table>>
    ld_ddl,           \* the CREATE TABLE statements handed to the warehouse cursor
    ld_errors,        \* the logger.error lines: [scope, db, table]
    ld_open,          \* names of the files whose SQLite connection is open
    ld_table_info,    \* the rows of BIRD_TABLE_DATA_INFO in the warehouse
    ld_exception,     \* the exception that ended the run, "none" otherwise
    ex_pc,            \* extraction of one candidate file: "idle", "call", "tables", "done"
    ex_entry,         \* the function that examines the file
    ex_file,          \* the candidate file
    ex_size,          \* its st_size
    ex_table_index,   \* number of tables analyze_database_file has introspected
    ex_io,            \* the operations made on the file, in order
    ex_outcome,       \* "accepted", "rejected", or "none" before the end
    mn_program,    \* the script whose main runs: "full_loader", "mini_loader", "downloader", or "none"
    mn_pc,         \* the step main is about to run, "finally", "exited", or "idle"
    mn_conn,       \* self.conn: "None", "open" or "closed"
    mn_cursor,     \* self.cursor: "None", "open" or "closed"
    mn_temp_dir,   \* self.temp_dir: "None", "exists" or "removed"
    mn_db_paths,   \* db_paths of the full loader main: "unbound", "empty" or "found"
    mn_io,         \* the operations made so far, oldest first
    mn_exception,  \* the exception the except clause caught, or "none"
    mn_returns,    \* what main returns: "0", "1", or "none" while it has not
    dw_pc,         \* download_databases: "idle", "loop", "after_loop" or "returned"
    dw_archives,   \* the database files in the archive of each source
    dw_source,     \* the index of the source the loop is at
    dw_outcomes,   \* what each source tried so far gave, in the order tried
    dw_extracted,  \* the database files under temp_dir/extracted, each with the source it came from
    dw_db_paths,   \* db_paths: the databases returned, each with the source its file came from
    dw_manual      \* whether the manual instructions were shown

clVars == <<cl_pc, cl_db_id, cl_table_names, cl_column_names, domain_scores, cl_domain,
            cl_returns>>

cvVars == <<cv_sqlite_type, cv_snowflake_type>>

mapVars == <<map_pc, calls, sqlite_files, file_index, mapping_results,
             domain_databases, mapping_keywords, schema_script, open_connections,
             map_exception>>

scVars == <<sc_pc, sc_tables, sc_columns, sc_foreign_keys, sc_score>>

dlVars == <<dl_db_name, dl_table, dl_ddl>>

ldVars == <<ld_pc, ld_loader, ld_max_tables, ld_databases, ld_db_index, ld_table_index,
            ld_attempts, ld_loaded, ld_ddl, ld_errors, ld_open, ld_table_info,
            ld_exception>>

exVars == <<ex_pc, ex_entry, ex_file, ex_size, ex_table_index, ex_io, ex_outcome>>

mnVars == <<mn_program, mn_pc, mn_conn, mn_cursor, mn_temp_dir, mn_db_paths, mn_io,
            mn_exception, mn_returns>>

dwVars == <<dw_pc, dw_archives, dw_source, dw_outcomes, dw_extracted, dw_db_paths,
            dw_manual>>

vars == <<clVars, cvVars, mapVars, scVars, dlVars, ldVars, exVars, mnVars, dwVars>>

\* what a step of one program leaves alone: the state of the others
otherThanMap == <<clVars, cvVars, scVars, dlVars, ldVars, exVars, mnVars, dwVars>>
otherThanCl == <<cvVars, mapVars, scVars, dlVars, ldVars, exVars, mnVars, dwVars>>
otherThanCv == <<clVars, mapVars, scVars, dlVars, ldVars, exVars, mnVars, dwVars>>
otherThanSc == <<clVars, cvVars, mapVars, dlVars, ldVars, exVars, mnVars, dwVars>>
otherThanDl == <<clVars, cvVars, mapVars, scVars, ldVars, exVars, mnVars, dwVars>>
otherThanLd == <<clVars, cvVars, mapVars, scVars, dlVars, exVars, mnVars, dwVars>>
otherThanEx == <<clVars, cvVars, mapVars, scVars, dlVars, ldVars, mnVars, dwVars>>
otherThanMn == <<clVars, cvVars, mapVars, scVars, dlVars, ldVars, exVars, dwVars>>
otherThanDw == <<clVars, cvVars, mapVars, scVars, dlVars, ldVars, exVars, mnVars>>

NotCalled == "<not called>"

\* generate_snowflake_schema_script was not called on the results at hand
NoScript == [called |-> FALSE, exception |-> "none", text |-> ""]

\* the classifier is at rest in the other specifications
ClIdle ==
    /\ cl_pc = "idle"
    /\ cl_db_id = ""
    /\ cl_table_names = <<>>
    /\ cl_column_names = <<>>
    /\ domain_scores = [d \in Domains |-> 0]
    /\ cl_domain = "none"
    /\ cl_returns = {}

\* the converters are at rest in the other specifications
CvIdle ==
    /\ cv_sqlite_type = ""
    /\ cv_snowflake_type = [c \in {} |-> NotCalled]

\* no mapper runs in the specifications of the pure functions
MapIdle ==
    /\ map_pc = "idle"
    /\ calls = 0
    /\ sqlite_files = <<>>
    /\ file_index = 0
    /\ mapping_results = <<>>
    /\ domain_databases = [d \in Domains |-> <<>>]
    /\ mapping_keywords = domain_keywords
    /\ schema_script = NoScript
    /\ open_connections = {}
    /\ map_exception = "none"

\* no direct call of _calculate_complexity_score is made in the other
\* specifications
ScIdle ==
    /\ sc_pc = "idle"
    /\ sc_tables = 0
    /\ sc_columns = 0
    /\ sc_foreign_keys = 0
    /\ sc_score = FloatOfInt(0)

\* no DDL generator is called directly in the other specifications
DlIdle ==
    /\ dl_db_name = ""
    /\ dl_table = Table("", <<>>, 0, <<>>)
    /\ dl_ddl = [g \in {} |-> NotCalled]

\* no loader runs in the other specifications
LdIdle ==
    /\ ld_pc = "idle"
    /\ ld_loader = "none"
    /\ ld_max_tables = 0
    /\ ld_databases = <<>>
    /\ ld_db_index = 0
    /\ ld_table_index = 0
    /\ ld_attempts = <<>>
    /\ ld_loaded = <<>>
    /\ ld_ddl = <<>>
    /\ ld_errors = <<>>
    /\ ld_open = {}
    /\ ld_table_info = <<>>
    /\ ld_exception = "none"

\* no candidate file is examined on its own in the other specifications
ExIdle ==
    /\ ex_pc = "idle"
    /\ ex_entry = "none"
    /\ ex_file = [stem |-> "", suffix |-> "", valid |-> FALSE, tables |-> <<>>]
    /\ ex_size = 0
    /\ ex_table_index = 0
    /\ ex_io = <<>>
    /\ ex_outcome = "none"

\* no main runs in the other specifications
MnIdle ==
    /\ mn_program = "none"
    /\ mn_pc = "idle"
    /\ mn_conn = "None"
    /\ mn_cursor = "None"
    /\ mn_temp_dir = "None"
    /\ mn_db_paths = "unbound"
    /\ mn_io = <<>>
    /\ mn_exception = "none"
    /\ mn_returns = "none"

\* no download runs in the other specifications
DwIdle ==
    /\ dw_pc = "idle"
    /\ dw_archives = <<>>
    /\ dw_source = 0
    /\ dw_outcomes = <<>>
    /\ dw_extracted = {}
    /\ dw_db_paths = {}
    /\ dw_manual = FALSE

\* sequences over S of length at most n
SeqsUpTo(S, n) == UNION {[1..k -> S] : k \in 0..n}

(***************************************************************************)
(* BirdDatabaseMapper.map_all_databases, one step per loop iteration.      *)
(***************************************************************************)
\* the orders in which a glob may list the files of S
Listings(S) ==
    {seq \in [1..Cardinality(S) -> S] : \A i, j \in 1..Cardinality(S) :
                                            seq[i] = seq[j] => i = j}

\* the directories map_all_databases is called on: sets of files
Directories == {dir \in SUBSET FilePool : Cardinality(dir) <= MaxFiles}

\* list(db_path.glob("*.sqlite")) + list(db_path.glob("*.db"))
GlobSqliteThenDb(dir) ==
    {a \o b : a \in Listings({f \in dir : f.suffix = ".sqlite"}),
              b \in Listings({f \in dir : f.suffix = ".db"})}

Init ==
    /\ MapIdle
    /\ ClIdle
    /\ CvIdle
    /\ ScIdle
    /\ DlIdle
    /\ LdIdle
    /\ ExIdle
    /\ MnIdle
    /\ DwIdle

\* the call on a directory that does not exist: logs and returns {}
CallOnMissingDirectory ==
    /\ map_pc \in {"idle", "returned", "raised"}
    /\ calls < MaxCalls
    /\ calls' = calls + 1
    /\ map_pc' = "returned"
    /\ mapping_results' = <<>>
    /\ sqlite_files' = <<>>
    /\ file_index' = 0
    /\ map_exception' = "none"
    /\ schema_script' = NoScript
    /\ UNCHANGED <<domain_databases, mapping_keywords, open_connections, otherThanMap>>

\* the call, on one of the given directories, up to the loop: the listing
\* and the empty mapping_results
MapAllDatabasesOn(directories) ==
    /\ map_pc \in {"idle", "returned", "raised"}
    /\ calls < MaxCalls
    /\ calls' = calls + 1
    /\ \E dir \in directories : sqlite_files' \in GlobSqliteThenDb(dir)
    /\ mapping_results' = [databases |-> <<>>,
                           domain_summary |-> <<>>,
                           complexity_analysis |-> <<>>,
                           total_databases |-> Len(sqlite_files')]
    /\ file_index' = 0
    /\ map_pc' = "loop"
    /\ map_exception' = "none"
    /\ schema_script' = NoScript
    /\ UNCHANGED <<domain_databases, mapping_keywords, open_connections, otherThanMap>>

CallMapAllDatabases == MapAllDatabasesOn(Directories)

\* an append that lands in the 'keywords' list of the entry
AppendDatabaseToKeywords(info, db_id) == [info EXCEPT !.keywords = Append(@, db_id)]

\* self.domain_mappings[domain]['databases'].append(result['db_id']), on the
\* entry info = self.domain_mappings[domain]
AppendDatabase(info, db_id) == [info EXCEPT !.databases = Append(@, db_id)]

\* one iteration of "for db_file in sqlite_files".  A connection that was not
\* closed stays open until the garbage collector finalises the object, which
\* may be at once or never (collected).
AnalyzeNextFile ==
    /\ map_pc = "loop"
    /\ file_index < Len(sqlite_files)
    /\ LET db_file == sqlite_files[file_index + 1]
           analysis == AnalysisOf[db_file]
       IN  /\ \E collected \in BOOLEAN :
                 open_connections' =
                     IF analysis.closed \/ collected
                     THEN open_connections \ {FileName(db_file)}
                     ELSE open_connections \cup {FileName(db_file)}
           /\ file_index' = file_index + 1
           /\ IF analysis.returns = "None"
              THEN UNCHANGED <<mapping_results, domain_databases, mapping_keywords, map_pc,
                               map_exception>>
              ELSE /\ mapping_results' =
                          [mapping_results EXCEPT
                              !.databases = Append(@, analysis.result)]
                   /\ IF analysis.result.domain \in DOMAIN domain_databases
                      THEN LET domain == analysis.result.domain
                               info == AppendDatabase(
                                           [keywords |-> mapping_keywords[domain],
                                            databases |-> domain_databases[domain]],
                                           analysis.result.db_id)
                           IN  /\ domain_databases' =
                                      [domain_databases EXCEPT ![domain] = info.databases]
                               /\ mapping_keywords' =
                                      [mapping_keywords EXCEPT ![domain] = info.keywords]
                               /\ UNCHANGED <<map_pc, map_exception>>
                      ELSE \* self.domain_mappings[domain] with no such key
                           /\ map_pc' = "raised"
                           /\ map_exception' = "KeyError"
                           /\ UNCHANGED <<domain_databases, mapping_keywords>>
    /\ UNCHANGED <<calls, sqlite_files, schema_script, otherThanMap>>

\* the loop is exhausted
EndLoop ==
    /\ map_pc = "loop"
    /\ file_index = Len(sqlite_files)
    /\ map_pc' = "summary"
    /\ UNCHANGED <<calls, sqlite_files, file_index, mapping_results, domain_databases,
                   mapping_keywords, schema_script, open_connections, map_exception,
                   otherThanMap>>

\* [db for db in mapping_results['databases'] if db['domain'] == domain]
DomainDbs(databases, domain) == SelectSeq(databases, LAMBDA db : db.domain = domain)

\* the domains whose 'databases' list is not empty, in taxonomy order
SummarisedDomains(dom_dbs) == SelectSeq(DomainOrder, LAMBDA d : dom_dbs[d] # <<>>)

\* the quotient sum(...) / len(...) is kept unevaluated, as the summed terms
\* and the divisor
DomainSummaryEntry(databases, dom_dbs, domain) ==
    LET domain_dbs == DomainDbs(databases, domain)
    IN  [count |-> Len(dom_dbs[domain]),
         databases |-> dom_dbs[domain],
         avg_complexity |->
             [terms |-> [i \in 1..Len(domain_dbs) |-> domain_dbs[i].complexity_score],
              len |-> Len(domain_dbs)],
         total_tables |-> SumSeq([i \in 1..Len(domain_dbs) |-> domain_dbs[i].table_count]),
         total_rows |-> SumSeq([i \in 1..Len(domain_dbs) |-> domain_dbs[i].total_rows])]

\* the domain summary raises ZeroDivisionError at the first summarised domain
\* none of this call's databases belongs to
SummaryDivides(databases, dom_dbs) ==
    \A i \in 1..Len(SummarisedDomains(dom_dbs)) :
        DomainDbs(databases, SummarisedDomains(dom_dbs)[i]) # <<>>

\* max(databases, key=complexity_score): the first maximal element
RECURSIVE FirstMax(_, _)
FirstMax(best, rest) ==
    IF rest = <<>> THEN best
    ELSE FirstMax(IF FloatLess(best.complexity_score, Head(rest).complexity_score)
                  THEN Head(rest) ELSE best, Tail(rest))

\* min(databases, key=complexity_score): the first minimal element
RECURSIVE FirstMin(_, _)
FirstMin(best, rest) ==
    IF rest = <<>> THEN best
    ELSE FirstMin(IF FloatLess(Head(rest).complexity_score, best.complexity_score)
                  THEN Head(rest) ELSE best, Tail(rest))

ComplexityAnalysis(databases) ==
    LET all_scores == [i \in 1..Len(databases) |-> databases[i].complexity_score]
        most == FirstMax(Head(databases), Tail(databases))
        least == FirstMin(Head(databases), Tail(databases))
    IN  IF all_scores = <<>>
        THEN [min_complexity |-> 0, max_complexity |-> 0,
              avg_complexity |-> 0,
              most_complex |-> "None", least_complex |-> "None"]
        ELSE [min_complexity |-> least.complexity_score,
              max_complexity |-> most.complexity_score,
              avg_complexity |-> [terms |-> all_scores, len |-> Len(all_scores)],
              most_complex |-> most.db_id,
              least_complex |-> least.db_id]

\* the domain summary, the complexity analysis and the return
Summarize ==
    /\ map_pc = "summary"
    /\ IF SummaryDivides(mapping_results.databases, domain_databases)
       THEN /\ mapping_results' =
                   [mapping_results EXCEPT
                       !.domain_summary =
                           [i \in 1..Len(SummarisedDomains(domain_databases)) |->
                               <<SummarisedDomains(domain_databases)[i],
                                 DomainSummaryEntry(mapping_results.databases,
                                                    domain_databases,
                                                    SummarisedDomains(domain_databases)[i])>>],
                       !.complexity_analysis =
                           ComplexityAnalysis(mapping_results.databases)]
            /\ map_pc' = "returned"
            /\ UNCHANGED map_exception
       ELSE /\ map_pc' = "raised"
            /\ map_exception' = "ZeroDivisionError"
            /\ UNCHANGED mapping_results
    /\ UNCHANGED <<calls, sqlite_files, file_index, domain_databases, mapping_keywords,
                   schema_script, open_connections, otherThanMap>>

\* most databases of one domain whose tables the script holds
ScriptDatabaseLimit == 3

\* summary['databases'][:3]
FirstDatabases(databases) ==
    SubSeq(databases, 1,
           IF Len(databases) < ScriptDatabaseLimit THEN Len(databases)
           ELSE ScriptDatabaseLimit)

\* next(db for db in mapping_results['databases'] if db['db_id'] == db_id):
\* the position of the first such element, 0 when next raises StopIteration
FirstWithDbId(databases, db_id) ==
    IF \E i \in 1..Len(databases) : databases[i].db_id = db_id
    THEN CHOOSE i \in 1..Len(databases) :
             /\ databases[i].db_id = db_id
             /\ \A j \in 1..(i - 1) : databases[j].db_id # db_id
    ELSE 0

\* the parts one db_id of a domain adds to script_parts
DatabaseParts(databases, db_id) ==
    LET db_data == databases[FirstWithDbId(databases, db_id)]
    IN  <<"-- Tables for database: " \o db_id>>
        \o [i \in 1..Len(db_data.table_details) |->
               generate_table_ddl(db_id \o "_" \o db_data.table_details[i][1],
                                  db_data.table_details[i][2])]
        \o <<"">>

RECURSIVE DatabasesParts(_, _)
DatabasesParts(databases, db_ids) ==
    IF db_ids = <<>> THEN <<>>
    ELSE DatabaseParts(databases, Head(db_ids)) \o DatabasesParts(databases, Tail(db_ids))

\* the parts one item (domain, summary) of domain_summary adds
DomainParts(databases, domain, summary) ==
    IF summary.count > 0
    THEN <<"-- " \o domain_descriptions[domain] \o " (" \o DecimalStr(summary.count)
               \o " databases)",
           "CREATE SCHEMA IF NOT EXISTS BIRD_" \o Upper(domain) \o ";",
           "USE SCHEMA BIRD_" \o Upper(domain) \o ";\n">>
         \o DatabasesParts(databases, FirstDatabases(summary.databases))
    ELSE <<>>

RECURSIVE DomainsParts(_, _)
DomainsParts(databases, domain_summary) ==
    IF domain_summary = <<>> THEN <<>>
    ELSE DomainParts(databases, Head(domain_summary)[1], Head(domain_summary)[2])
         \o DomainsParts(databases, Tail(domain_summary))

\* whether a next(...) of the call finds no database of the db_id it looks for
ScriptRaises(results) ==
    \E k \in 1..Len(results.domain_summary) :
        LET summary == results.domain_summary[k][2]
        IN  /\ summary.count > 0
            /\ \E n \in 1..Len(FirstDatabases(summary.databases)) :
                   FirstWithDbId(results.databases,
                                 FirstDatabases(summary.databases)[n]) = 0

\* BirdDatabaseMapper.generate_snowflake_schema_script
generate_snowflake_schema_script(results) ==
    IF ScriptRaises(results)
    THEN [called |-> TRUE, exception |-> "StopIteration", text |-> ""]
    ELSE [called |-> TRUE, exception |-> "none",
          text |-> Join("\n",
                        <<"-- BIRD Dataset Domain-Specific Schema Creation Script",
                          "-- Generated by BIRD Database Mapper\n",
                          "USE DATABASE BIRD_DB;",
                          "USE SCHEMA PUBLIC;\n">>
                        \o DomainsParts(results.databases, results.domain_summary))]

\* main after a call that returned databases: the schema script of its
\* results
GenerateSnowflakeSchemaScript ==
    /\ map_pc = "returned"
    /\ mapping_results # <<>>
    /\ mapping_results.databases # <<>>
    /\ ~schema_script.called
    /\ schema_script' = generate_snowflake_schema_script(mapping_results)
    /\ UNCHANGED <<map_pc, calls, sqlite_files, file_index, mapping_results,
                   domain_databases, mapping_keywords, open_connections, map_exception,
                   otherThanMap>>

Next ==
    \/ CallOnMissingDirectory
    \/ CallMapAllDatabases
    \/ AnalyzeNextFile
    \/ EndLoop
    \/ Summarize
    \/ GenerateSnowflakeSchemaScript

Spec == Init /\ [][Next]_vars

(***************************************************************************)
(* Direct calls of classify_database on bounded inputs.                    *)
(***************************************************************************)
DbIdPool == {"city_bank_accounts", "sample_financial", "Student_Shop"}
TableNamePool == {"accounts", "Customers", "log"}
ColumnNamePool == {"customer_id", "Grade", "name"}

ClInit ==
    /\ cl_pc = "call"
    /\ cl_db_id \in DbIdPool
    /\ cl_table_names \in SeqsUpTo(TableNamePool, MaxTableNames)
    /\ cl_column_names \in SeqsUpTo(ColumnNamePool, MaxColumnNames)
    /\ domain_scores = [d \in Domains |-> 0]
    /\ cl_domain = "none"
    /\ cl_returns = {}

\* the whole call, on the instance as it is: the keywords are those of
\* self.domain_mappings at the time of the call.  The program has one thread,
\* so a call from outside falls between two calls of map_all_databases.
Classify ==
    /\ cl_pc = "call"
    /\ map_pc \in {"idle", "returned", "raised"}
    /\ domain_scores' =
           ScoreAllOf(mapping_keywords, cl_db_id, cl_table_names, cl_column_names)
    /\ cl_domain' = PickDomain(domain_scores')
    /\ cl_pc' = "return"
    /\ cl_returns' = cl_returns \cup {[domain |-> cl_domain', calls |-> calls]}
    /\ UNCHANGED <<cl_db_id, cl_table_names, cl_column_names, otherThanCl>>

\* one more call with the same arguments
ClassifyAgain ==
    /\ cl_pc = "return"
    /\ map_pc \in {"idle", "returned", "raised"}
    /\ cl_pc' = "call"
    /\ domain_scores' = [d \in Domains |-> 0]
    /\ cl_domain' = "none"
    /\ UNCHANGED <<cl_db_id, cl_table_names, cl_column_names, cl_returns, otherThanCl>>

ClNext == Classify

ClassifyInit ==
    /\ ClInit
    /\ CvIdle
    /\ MapIdle
    /\ ScIdle
    /\ DlIdle
    /\ LdIdle
    /\ ExIdle
    /\ MnIdle
    /\ DwIdle

ClassifySpec == ClassifyInit /\ [][ClNext]_vars

(***************************************************************************)
(* One BirdDatabaseMapper instance on which classify_database is called    *)
(* before, between and after calls of map_all_databases.                   *)
(***************************************************************************)
\* the arguments of the calls from outside
InstanceArguments ==
    {[db_id |-> "sample_financial", table_names |-> <<>>, column_names |-> <<>>],
     [db_id |-> "bank", table_names |-> <<"branch">>,
      column_names |-> <<"branch_id", "assets">>],
     [db_id |-> "xyz", table_names |-> <<"log">>, column_names |-> <<"id", "msg">>]}

\* the directories map_all_databases is called on between them: one file each
InstanceDirectories == {{FixtureDb}, {BankDb}, {PlainDb}, {CorruptDb}}

CallMapAllDatabasesBetween == MapAllDatabasesOn(InstanceDirectories)

InstanceInit ==
    /\ MapIdle
    /\ MnIdle
    /\ DwIdle
    /\ \E arguments \in InstanceArguments :
          /\ cl_db_id = arguments.db_id
          /\ cl_table_names = arguments.table_names
          /\ cl_column_names = arguments.column_names
    /\ cl_pc = "call"
    /\ domain_scores = [d \in Domains |-> 0]
    /\ cl_domain = "none"
    /\ cl_returns = {}
    /\ CvIdle
    /\ ScIdle
    /\ DlIdle
    /\ LdIdle
    /\ ExIdle

InstanceNext ==
    \/ Classify
    \/ ClassifyAgain
    \/ CallOnMissingDirectory
    \/ CallMapAllDatabasesBetween
    \/ AnalyzeNextFile
    \/ EndLoop
    \/ Summarize

InstanceSpec == InstanceInit /\ [][InstanceNext]_vars

(***************************************************************************)
(* Calls of the three type converters on bounded declared types.           *)
(***************************************************************************)
TypeNames ==
    {"INTEGER", "TEXT", "REAL", "NUMERIC", "DECIMAL", "BLOB", "VARCHAR", "DATE",
     "DATETIME", "TIMESTAMP", "BIGINT", "DOUBLE", "BOOLEAN", "NVARCHAR", "FOOBAR", ""}

Widths == {10 * w : w \in 1..MaxWidth}
Scales == 0..MaxWidth

\* "", "(n)" and "(p,s)"
TypeParams ==
    {""} \cup {"(" \o DecimalStr(n) \o ")" : n \in Widths}
         \cup {"(" \o DecimalStr(p) \o "," \o DecimalStr(sc) \o ")" : p \in Widths, sc \in Scales}

\* declared types as SQLite stores them: verbatim, in the casing of the CREATE TABLE
DeclaredTypes ==
    {t \o a : t \in TypeNames, a \in TypeParams}
    \cup {Lower(t) \o a : t \in TypeNames, a \in TypeParams}

CvInit ==
    /\ cv_sqlite_type \in DeclaredTypes
    /\ cv_snowflake_type = [c \in Converters |-> NotCalled]

ConvertMapper ==
    /\ cv_snowflake_type["mapper"] = NotCalled
    /\ cv_snowflake_type' =
           [cv_snowflake_type EXCEPT !["mapper"] = Mapper_convert_sqlite_type(cv_sqlite_type)]
    /\ UNCHANGED <<cv_sqlite_type, otherThanCv>>

ConvertMiniLoader ==
    /\ cv_snowflake_type["mini_loader"] = NotCalled
    /\ cv_snowflake_type' =
           [cv_snowflake_type EXCEPT !["mini_loader"] = MiniLoader_convert_sqlite_type(cv_sqlite_type)]
    /\ UNCHANGED <<cv_sqlite_type, otherThanCv>>

ConvertDataTest ==
    /\ cv_snowflake_type["data_test"] = NotCalled
    /\ cv_snowflake_type' =
           [cv_snowflake_type EXCEPT
               !["data_test"] = DataTest_convert_sqlite_type_to_snowflake(cv_sqlite_type)]
    /\ UNCHANGED <<cv_sqlite_type, otherThanCv>>

CvNext == ConvertMapper \/ ConvertMiniLoader \/ ConvertDataTest

ConvertInit ==
    /\ CvInit
    /\ ClIdle
    /\ MapIdle
    /\ ScIdle
    /\ DlIdle
    /\ LdIdle
    /\ ExIdle
    /\ MnIdle
    /\ DwIdle

ConvertSpec == ConvertInit /\ [][CvNext]_vars

(***************************************************************************)
(* Direct calls of _calculate_complexity_score on bounded counts.          *)
(***************************************************************************)
MaxScoreTables == 3
MaxScoreColumns == 20
MaxScoreForeignKeys == 2

ScInit ==
    /\ sc_pc = "call"
    /\ sc_tables \in 0..MaxScoreTables
    /\ sc_columns \in 0..MaxScoreColumns
    /\ sc_foreign_keys \in 0..MaxScoreForeignKeys
    /\ sc_score = FloatOfInt(0)

CalculateComplexityScore ==
    /\ sc_pc = "call"
    /\ sc_score' = calculate_complexity_score(sc_tables, sc_columns, sc_foreign_keys)
    /\ sc_pc' = "return"
    /\ UNCHANGED <<sc_tables, sc_columns, sc_foreign_keys, otherThanSc>>

ScNext == CalculateComplexityScore

ScoreInit ==
    /\ ScInit
    /\ ClIdle
    /\ CvIdle
    /\ MapIdle
    /\ DlIdle
    /\ LdIdle
    /\ ExIdle
    /\ MnIdle
    /\ DwIdle

ScoreSpec == ScoreInit /\ [][ScNext]_vars

(***************************************************************************)
(* Calls of the three DDL generators on bounded source tables.             *)
(***************************************************************************)
\* most columns of a source table
MaxDdlColumns == 2

DdlDbNames == {"Shop"}
DdlTableNames == {"customers", "Order"}
DdlColumnNames == {"order_id", "Name", "ref"}
DdlColumnTypes == {"INTEGER", "varchar(20)"}

DdlColumnPool ==
    {Col(name, type, pk) : name \in DdlColumnNames, type \in DdlColumnTypes, pk \in BOOLEAN}

\* column lists as SQLite admits them: at least one column, no name twice
DdlColumnLists ==
    {columns \in SeqsUpTo(DdlColumnPool, MaxDdlColumns) :
        /\ columns # <<>>
        /\ \A i, j \in 1..Len(columns) : columns[i].name = columns[j].name => i = j}

\* source tables, with no foreign key or with one on the first column
DdlTables ==
    {Table(name, columns, 0, foreign_keys) :
        name \in DdlTableNames,
        columns \in DdlColumnLists,
        foreign_keys \in {<<>>, <<Fk("order_id", "customers", "customer_id")>>}}

DlInit ==
    /\ dl_db_name \in DdlDbNames
    /\ dl_table \in DdlTables
    /\ dl_ddl = [g \in DdlGenerators |-> NotCalled]

\* the mapper's generator, on the table_info analyze_database_file builds and
\* the identifier f"{db_id}_{table_name}" of the schema script
GenerateMapperDdl ==
    /\ "mapper" \in DOMAIN dl_ddl
    /\ dl_ddl["mapper"] = NotCalled
    /\ dl_ddl' = [dl_ddl EXCEPT !["mapper"] =
                      generate_table_ddl(dl_db_name \o "_" \o dl_table.name,
                                         TableInfo(dl_table))]
    /\ UNCHANGED <<dl_db_name, dl_table, otherThanDl>>

GenerateMiniLoaderDdl ==
    /\ "mini_loader" \in DOMAIN dl_ddl
    /\ dl_ddl["mini_loader"] = NotCalled
    /\ dl_ddl' = [dl_ddl EXCEPT !["mini_loader"] = MiniLoaderDdl(dl_db_name, dl_table)]
    /\ UNCHANGED <<dl_db_name, dl_table, otherThanDl>>

GenerateDataTestDdl ==
    /\ "data_test" \in DOMAIN dl_ddl
    /\ dl_ddl["data_test"] = NotCalled
    /\ dl_ddl' = [dl_ddl EXCEPT !["data_test"] = DataTestDdl(dl_db_name, dl_table)]
    /\ UNCHANGED <<dl_db_name, dl_table, otherThanDl>>

DlNext == GenerateMapperDdl \/ GenerateMiniLoaderDdl \/ GenerateDataTestDdl

DdlInit ==
    /\ DlInit
    /\ ClIdle
    /\ CvIdle
    /\ MapIdle
    /\ ScIdle
    /\ LdIdle
    /\ ExIdle
    /\ MnIdle
    /\ DwIdle

DdlSpec == DdlInit /\ [][DlNext]_vars

(***************************************************************************)
(* The table-loading runs of the three loaders, one step per iteration of  *)
(* the database loop and of the table loop:                                *)
(*   SnowflakeBirdFullLoader.load_database_data,                           *)
(*   SnowflakeBirdMiniLoader.load_databases_to_snowflake,                  *)
(*   SnowflakeBirdDataTestLoader.create_tables_from_sqlite.                *)
(* The warehouse is outside the program: each of its operations may fail,  *)
(* which is the choice of fault in LoadTable and FinishRun.                *)
(***************************************************************************)
\* most databases handed to one run
MaxLoadDatabases == 2

Loaders == {"full_loader", "mini_loader", "data_test"}

LoadPool == {FixtureDb, ReservedDb, CorruptDb, StoreDb, StoreSalesDb}

\* values of max_tables
LoadLimits == {0, 1}

\* the warehouse operations inside the per-table try block of a loader
WarehouseFaults(loader) ==
    IF loader = "full_loader" THEN {"none", "write_pandas", "update"}
    ELSE {"none", "ddl", "write_pandas"}

\* how one iteration of the table loop ends: "failed" when a statement inside
\* the try block raised, "empty" when the loader found no row to write,
\* "loaded" otherwise.  The SQLite statements splice the table name unquoted.
TableOutcome(loader, table, fault) ==
    IF ~UnquotedNameParses(table.name) THEN "failed"
    ELSE IF loader = "full_loader"
    THEN (IF fault = "none" THEN "loaded" ELSE "failed")
    ELSE IF fault = "ddl" THEN "failed"
    ELSE IF table.row_count = 0 THEN "empty"
    ELSE IF fault = "write_pandas" THEN "failed"
    ELSE "loaded"

\* a handler that gives up on the rest of the database after a table failure
AfterTableFailureAbort(table_index, table_count) == table_count

\* "except Exception as e: logger.error(...)" inside the table loop: the
\* loop goes on with the next table
AfterTableFailure(table_index, table_count) == table_index + 1

\* "if max_tables and tables_loaded >= max_tables"
LimitReached ==
    /\ ld_loader = "full_loader"
    /\ ld_max_tables > 0
    /\ Len(ld_loaded) >= ld_max_tables

LdInit ==
    /\ ld_loader \in Loaders
    /\ ld_pc = IF ld_loader = "full_loader" THEN "schemas" ELSE "next_db"
    /\ ld_max_tables \in (IF ld_loader = "full_loader" THEN LoadLimits ELSE {0})
    /\ ld_databases \in
           {dbs \in SeqsUpTo(LoadPool, MaxLoadDatabases) :
               /\ \A i, j \in 1..Len(dbs) : dbs[i] = dbs[j] => i = j
               /\ ld_loader = "data_test" => Len(dbs) = 1}
    /\ ld_db_index = 0
    /\ ld_table_index = 0
    /\ ld_attempts = <<>>
    /\ ld_loaded = <<>>
    /\ ld_ddl = <<>>
    /\ ld_errors = <<>>
    /\ ld_open = {}
    /\ ld_table_info = <<>>
    /\ ld_exception = "none"

\* SQLite's answer to the statements analyze_sqlite_database builds by
\* splicing the table name between square brackets: the bracketed name ends
\* at the first "]"
BracketedNameParses(name) == ~Contains("]", name)

\* SnowflakeBirdFullLoader.analyze_sqlite_database: empty is whether it
\* returns {}, as it does when a statement raised; tables are the names of
\* db_info['tables'] with their row counts
analyze_sqlite_database(file) ==
    IF /\ file.valid
       /\ \A i \in 1..Len(file.tables) : BracketedNameParses(file.tables[i].name)
    THEN [empty |-> FALSE,
          tables |-> [i \in 1..Len(file.tables) |->
                         [table_name |-> file.tables[i].name,
                          row_count |-> file.tables[i].row_count]]]
    ELSE [empty |-> TRUE, tables |-> <<>>]

\* table_info_data of load_database_schemas: one record per table of every
\* database whose analysis returned a db_info that is not empty
RECURSIVE TableInfoData(_)
TableInfoData(dbs) ==
    IF dbs = <<>> THEN <<>>
    ELSE LET db_info == analyze_sqlite_database(Head(dbs))
         IN  [i \in 1..Len(db_info.tables) |->
                 [db_id |-> Head(dbs).stem,
                  table_name |-> db_info.tables[i].table_name,
                  row_count |-> db_info.tables[i].row_count,
                  data_loaded |-> FALSE,
                  snowflake_table_name |->
                      Upper("BIRD_" \o Head(dbs).stem \o "_"
                            \o db_info.tables[i].table_name)]]
             \o TableInfoData(Tail(dbs))

\* "UPDATE bird_table_data_info SET data_loaded = TRUE ... WHERE db_id = ...
\* AND table_name = ..."
UpdateTableInfo(rows, db_id, table_name) ==
    [i \in 1..Len(rows) |->
        IF rows[i].db_id = db_id /\ rows[i].table_name = table_name
        THEN [rows[i] EXCEPT !.data_loaded = TRUE]
        ELSE rows[i]]

\* SnowflakeBirdFullLoader.load_database_schemas, which main calls before
\* load_database_data.  Its four frames come from the same db_info; the one
\* load_database_data updates later is kept here.  The frames are written
\* outside any try block, BIRD_TABLE_DATA_INFO last: a write that fails
\* ends main before load_database_data is called ("aborted").  Nothing is
\* written when every analysis returned {}.
LoadDatabaseSchemas ==
    /\ ld_pc = "schemas"
    /\ \E fault \in {"none", "write_pandas"} :
          IF /\ fault = "write_pandas"
             /\ \E i \in 1..Len(ld_databases) :
                    ~analyze_sqlite_database(ld_databases[i]).empty
          THEN /\ ld_pc' = "aborted"
               /\ ld_exception' = "write_pandas"
               /\ UNCHANGED ld_table_info
          ELSE /\ ld_pc' = "next_db"
               /\ ld_table_info' = TableInfoData(ld_databases)
               /\ UNCHANGED ld_exception
    /\ UNCHANGED <<ld_loader, ld_max_tables, ld_databases, ld_db_index, ld_table_index,
                   ld_attempts, ld_loaded, ld_ddl, ld_errors, ld_open, otherThanLd>>

\* the top of the database loop: sqlite3.connect and the listing of the
\* tables.  On a file that is no database the listing raises; the full and
\* the mini loader catch that around the whole database and go on, the data
\* test loader does not catch it.  The connection is then never closed by
\* the program and stays open until the object is finalised (collected).
OpenDatabase ==
    /\ ld_pc = "next_db"
    /\ ld_db_index < Len(ld_databases)
    /\ ~LimitReached
    /\ LET file == ld_databases[ld_db_index + 1]
       IN  IF file.valid
           THEN /\ ld_pc' = "tables"
                /\ ld_table_index' = 0
                /\ ld_open' = ld_open \cup {FileName(file)}
                /\ UNCHANGED <<ld_db_index, ld_errors, ld_exception>>
           ELSE /\ \E collected \in BOOLEAN :
                      ld_open' = IF collected THEN ld_open \ {FileName(file)}
                                 ELSE ld_open \cup {FileName(file)}
                /\ IF ld_loader = "data_test"
                   THEN /\ ld_pc' = "raised"
                        /\ ld_exception' = "DatabaseError"
                        /\ UNCHANGED <<ld_db_index, ld_errors>>
                   ELSE /\ ld_errors' = Append(ld_errors,
                                               [scope |-> "database", db |-> file.stem,
                                                table |-> ""])
                        /\ ld_db_index' = ld_db_index + 1
                        /\ UNCHANGED <<ld_pc, ld_exception>>
                /\ UNCHANGED ld_table_index
    /\ UNCHANGED <<ld_loader, ld_max_tables, ld_databases, ld_attempts, ld_loaded, ld_ddl,
                   ld_table_info, otherThanLd>>

\* one iteration of the table loop, its try block and its except clause
LoadTable ==
    /\ ld_pc = "tables"
    /\ ~LimitReached
    /\ LET file == ld_databases[ld_db_index + 1]
       IN  /\ ld_table_index < Len(file.tables)
           /\ \E fault \in WarehouseFaults(ld_loader) :
                 LET table == file.tables[ld_table_index + 1]
                     outcome == TableOutcome(ld_loader, table, fault)
                 IN  /\ ld_attempts' = Append(ld_attempts,
                                              [db |-> file.stem, table |-> table.name,
                                               outcome |-> outcome])
                     /\ ld_ddl' =
                            IF ld_loader = "full_loader" \/ ~UnquotedNameParses(table.name)
                            THEN ld_ddl
                            ELSE Append(ld_ddl,
                                        [db |-> file.stem, table |-> table.name,
                                         text |-> IF ld_loader = "mini_loader"
                                                  THEN MiniLoaderDdl(file.stem, table)
                                                  ELSE DataTestDdl(file.stem, table)])
                     /\ ld_loaded' = IF outcome = "loaded"
                                     THEN Append(ld_loaded, <<file.stem, table.name>>)
                                     ELSE ld_loaded
                     /\ ld_errors' = IF outcome = "failed"
                                     THEN Append(ld_errors,
                                                 [scope |-> "table", db |-> file.stem,
                                                  table |-> table.name])
                                     ELSE ld_errors
                     /\ ld_table_info' =
                            IF ld_loader = "full_loader" /\ outcome = "loaded"
                            THEN UpdateTableInfo(ld_table_info, file.stem, table.name)
                            ELSE ld_table_info
                     /\ ld_table_index' =
                            IF outcome = "failed"
                            THEN AfterTableFailure(ld_table_index, Len(file.tables))
                            ELSE ld_table_index + 1
    /\ UNCHANGED <<ld_pc, ld_loader, ld_max_tables, ld_databases, ld_db_index, ld_open,
                   ld_exception, otherThanLd>>

\* the table loop is over, by exhaustion or by the break on max_tables:
\* conn.close(), and for the data test loader the return
CloseDatabase ==
    /\ ld_pc = "tables"
    /\ \/ ld_table_index = Len(ld_databases[ld_db_index + 1].tables)
       \/ LimitReached
    /\ ld_open' = ld_open \ {FileName(ld_databases[ld_db_index + 1])}
    /\ ld_db_index' = ld_db_index + 1
    /\ ld_pc' = IF ld_loader = "data_test" THEN "done" ELSE "next_db"
    /\ UNCHANGED <<ld_loader, ld_max_tables, ld_databases, ld_table_index, ld_attempts,
                   ld_loaded, ld_ddl, ld_errors, ld_table_info, ld_exception, otherThanLd>>

\* the database loop is over, by exhaustion or by the break on max_tables.
\* The mini loader then writes its metadata frames, outside any try block,
\* when it has any: that write can raise out of the run.
FinishRun ==
    /\ ld_pc = "next_db"
    /\ \/ ld_db_index = Len(ld_databases)
       \/ LimitReached
    /\ \E fault \in {"none", "write_pandas"} :
          IF /\ ld_loader = "mini_loader"
             /\ fault = "write_pandas"
             /\ \E i \in 1..Len(ld_databases) : ld_databases[i].valid
          THEN ld_pc' = "raised" /\ ld_exception' = "write_pandas"
          ELSE ld_pc' = "done" /\ UNCHANGED ld_exception
    /\ UNCHANGED <<ld_loader, ld_max_tables, ld_databases, ld_db_index, ld_table_index,
                   ld_attempts, ld_loaded, ld_ddl, ld_errors, ld_open, ld_table_info,
                   otherThanLd>>

LdNext ==
    \/ LoadDatabaseSchemas
    \/ OpenDatabase
    \/ LoadTable
    \/ CloseDatabase
    \/ FinishRun

LoadInit ==
    /\ LdInit
    /\ ClIdle
    /\ CvIdle
    /\ MapIdle
    /\ ScIdle
    /\ DlIdle
    /\ ExIdle
    /\ MnIdle
    /\ DwIdle

LoadSpec == LoadInit /\ [][LdNext]_vars

(***************************************************************************)
(* The examination of one candidate file by the three places that decide   *)
(* whether a file is a database:                                           *)
(*   BirdDatabaseMapper.analyze_database_file,                             *)
(*   SnowflakeBirdFullLoader._verify_sqlite_database,                      *)
(*   BirdDatabaseDownloader._find_sqlite_databases (one file of its walk). *)
(* ex_io lists what the program does to the file: "stat", "read_header"    *)
(* (open and read(16)), "connect", "execute", "close".                     *)
(***************************************************************************)
SqliteMagic == "SQLite format 3"

\* the first bytes of the file; a SQLite database begins with the magic
\* string, the saved pages of the pool with a document type line
HeaderOf(file) == IF file.valid THEN SqliteMagic ELSE "<!DOCTYPE html>"

\* BirdDatabaseDownloader._is_sqlite_file
IsSqliteFile(file) == StartsWith(HeaderOf(file), SqliteMagic)

ExtractEntries ==
    {"analyze_database_file", "_verify_sqlite_database", "_find_sqlite_databases"}

ExtractPool == FilePool \cup {BareDb, BarePage, EmptyDb}

\* st_size on either side of the 1024 bytes _find_sqlite_databases asks for
FileSizes == {512, 8192}

DatabaseSuffixes == {".sqlite", ".db", ".sqlite3"}

ExInit ==
    /\ ex_pc = "call"
    /\ ex_entry \in ExtractEntries
    /\ ex_file \in ExtractPool
    /\ ex_size \in FileSizes
    /\ ex_table_index = 0
    /\ ex_io = <<>>
    /\ ex_outcome = "none"

\* analyze_database_file up to the table loop: connect, then the statement
\* on sqlite_master, which raises when the file is no database
AnalyzeOpen ==
    /\ ex_pc = "call"
    /\ ex_entry = "analyze_database_file"
    /\ ex_io' = ex_io \o <<"connect", "execute">>
    /\ IF ex_file.valid
       THEN ex_pc' = "tables" /\ UNCHANGED ex_outcome
       ELSE ex_pc' = "done" /\ ex_outcome' = "rejected"
    /\ UNCHANGED <<ex_entry, ex_file, ex_size, ex_table_index, otherThanEx>>

\* one iteration of "for table in tables": three statements, or the first of
\* them raising on a name that does not parse
AnalyzeTable ==
    /\ ex_pc = "tables"
    /\ ex_table_index < Len(ex_file.tables)
    /\ IF UnquotedNameParses(ex_file.tables[ex_table_index + 1].name)
       THEN /\ ex_io' = ex_io \o <<"execute", "execute", "execute">>
            /\ ex_table_index' = ex_table_index + 1
            /\ UNCHANGED <<ex_pc, ex_outcome>>
       ELSE /\ ex_io' = Append(ex_io, "execute")
            /\ ex_pc' = "done"
            /\ ex_outcome' = "rejected"
            /\ UNCHANGED ex_table_index
    /\ UNCHANGED <<ex_entry, ex_file, ex_size, otherThanEx>>

\* conn.close() and the return of the dict
AnalyzeClose ==
    /\ ex_pc = "tables"
    /\ ex_table_index = Len(ex_file.tables)
    /\ ex_io' = Append(ex_io, "close")
    /\ ex_pc' = "done"
    /\ ex_outcome' = "accepted"
    /\ UNCHANGED <<ex_entry, ex_file, ex_size, ex_table_index, otherThanEx>>

\* SnowflakeBirdFullLoader._verify_sqlite_database
VerifySqliteDatabase ==
    /\ ex_pc = "call"
    /\ ex_entry = "_verify_sqlite_database"
    /\ IF ex_file.valid
       THEN /\ ex_io' = ex_io \o <<"connect", "execute", "close">>
            /\ ex_outcome' = IF Len(ex_file.tables) > 0 THEN "accepted" ELSE "rejected"
       ELSE /\ ex_io' = ex_io \o <<"connect", "execute">>
            /\ ex_outcome' = "rejected"
    /\ ex_pc' = "done"
    /\ UNCHANGED <<ex_entry, ex_file, ex_size, ex_table_index, otherThanEx>>

\* _find_sqlite_databases on one file of search_dir.rglob("*"): the suffix
\* test, else the header test for a file without suffix of more than 1024
\* bytes.  The second walk, over the directories named *database*, adds
\* *.sqlite files, which the first walk has taken already, under a second key.
FindSqliteDatabases ==
    /\ ex_pc = "call"
    /\ ex_entry = "_find_sqlite_databases"
    /\ IF Lower(ex_file.suffix) \in DatabaseSuffixes
       THEN /\ ex_io' = Append(ex_io, "stat")
            /\ ex_outcome' = "accepted"
       ELSE IF ex_file.suffix = "" /\ ex_size > 1024
       THEN /\ ex_io' = ex_io \o <<"stat", "stat", "read_header">>
            /\ ex_outcome' = IF IsSqliteFile(ex_file) THEN "accepted" ELSE "rejected"
       ELSE /\ ex_io' = ex_io \o (IF ex_file.suffix = "" THEN <<"stat", "stat">>
                                   ELSE <<"stat">>)
            /\ ex_outcome' = "rejected"
    /\ ex_pc' = "done"
    /\ UNCHANGED <<ex_entry, ex_file, ex_size, ex_table_index, otherThanEx>>

ExNext ==
    \/ AnalyzeOpen
    \/ AnalyzeTable
    \/ AnalyzeClose
    \/ VerifySqliteDatabase
    \/ FindSqliteDatabases

ExtractInit ==
    /\ ExInit
    /\ ClIdle
    /\ CvIdle
    /\ MapIdle
    /\ ScIdle
    /\ DlIdle
    /\ LdIdle
    /\ MnIdle
    /\ DwIdle

ExtractSpec == ExtractInit /\ [][ExNext]_vars

(***************************************************************************)
(* The main functions of the five loaders and of the downloader: the steps *)
(* of the try block, the except clause and the finally clause.  A step is  *)
(* named after the method it calls.                                        *)
(***************************************************************************)
Programs ==
    {"full_loader", "mini_loader", "loader", "test_loader", "data_test_loader",
     "downloader"}

\* the statements of the try block, in the order of the text
TrySteps ==
    [full_loader |-> <<"connect", "create_bird_schema", "download_bird_datasets",
                       "extract_sqlite_databases", "_check_local_bird_databases",
                       "load_database_schemas", "load_database_data",
                       "process_bird_data", "write_pandas", "create_enhanced_views",
                       "validate_comprehensive_load">>,
     mini_loader |-> <<"connect", "test_warehouse", "create_comprehensive_schema",
                       "create_sample_databases", "load_databases_to_snowflake",
                       "load_sample_questions", "run_validation_queries">>,
     loader      |-> <<"connect", "create_bird_schema", "download_bird_dataset",
                       "process_bird_data", "load_to_snowflake", "create_sample_views",
                       "validate_load">>,
     test_loader |-> <<"connect", "test_warehouse", "create_test_tables",
                       "load_sample_data", "run_test_queries", "input",
                       "cleanup_test_tables">>,
     data_test_loader |->
                     <<"connect", "test_warehouse", "load_mini_dev_dataset",
                       "_create_sample_database_structure", "create_tables_from_sqlite",
                       "create_sample_questions_table", "run_sample_queries", "input",
                       "drop_test_tables">>,
     downloader  |-> <<"download_databases", "list_downloaded_databases">>]

\* the methods and attributes an object of the program's class has
ClassAttributes ==
    [full_loader |-> {"connect", "create_bird_schema", "download_bird_datasets",
                      "extract_sqlite_databases", "_verify_sqlite_database",
                      "_download_database_file", "_download_from_official_bird_repo",
                      "_download_databases_from_github", "_create_financial_db",
                      "_create_education_db", "_create_retail_db",
                      "analyze_sqlite_database", "load_database_schemas",
                      "load_database_data", "process_bird_data", "_extract_domain",
                      "create_enhanced_views", "validate_comprehensive_load",
                      "cleanup", "close", "config", "conn", "cursor", "temp_dir",
                      "database_schemas"},
     mini_loader |-> {"connect", "test_warehouse", "create_comprehensive_schema",
                      "create_sample_databases", "_create_financial_database",
                      "_create_education_database", "_create_retail_database",
                      "load_databases_to_snowflake", "_convert_sqlite_type",
                      "load_sample_questions", "_extract_domain",
                      "run_validation_queries", "cleanup_temp_files", "close",
                      "config", "conn", "cursor", "temp_dir"},
     loader      |-> {"connect", "create_bird_schema", "download_bird_dataset",
                      "process_bird_data", "_extract_domain", "load_to_snowflake",
                      "create_sample_views", "validate_load", "close", "config",
                      "conn", "cursor"},
     test_loader |-> {"connect", "test_warehouse", "create_test_tables",
                      "load_sample_data", "_extract_domain", "run_test_queries",
                      "cleanup_test_tables", "close", "config", "conn", "cursor"},
     data_test_loader |->
                     {"connect", "test_warehouse", "load_mini_dev_dataset",
                      "_create_sample_database_structure", "create_tables_from_sqlite",
                      "_convert_sqlite_type_to_snowflake", "create_sample_questions_table",
                      "run_sample_queries", "cleanup_temp_files", "close", "config",
                      "conn", "cursor", "temp_dir"},
     downloader  |-> {"download_databases", "_download_from_source", "_download_file",
                      "_extract_zip_file", "_find_sqlite_databases", "_is_sqlite_file",
                      "_copy_databases_to_final_location", "_show_manual_instructions",
                      "list_downloaded_databases", "cleanup", "download_dir",
                      "temp_dir", "download_sources"}]

\* the steps that send a statement or a frame to Snowflake
SnowflakeSteps ==
    {"create_bird_schema", "load_database_schemas", "load_database_data",
     "write_pandas", "create_enhanced_views", "validate_comprehensive_load",
     "test_warehouse", "create_comprehensive_schema", "load_databases_to_snowflake",
     "load_sample_questions", "run_validation_queries", "load_to_snowflake",
     "create_sample_views", "validate_load", "create_test_tables", "load_sample_data",
     "run_test_queries", "cleanup_test_tables", "create_tables_from_sqlite",
     "create_sample_questions_table", "run_sample_queries", "drop_test_tables"}

\* the steps that catch every exception of their own statements
SwallowingSteps ==
    {"create_enhanced_views", "validate_comprehensive_load", "load_sample_questions",
     "run_validation_queries", "create_sample_views", "validate_load",
     "run_test_queries", "cleanup_test_tables", "run_sample_queries",
     "list_downloaded_databases"}

\* whether no exception leaves the step: the method catches them all, or,
\* for the prompt of the data test loader, the try around it catches
\* EOFError and KeyboardInterrupt
Swallows(program, step) ==
    \/ step \in SwallowingSteps
    \/ program = "data_test_loader" /\ step = "input"

\* the steps that assign self.temp_dir = tempfile.mkdtemp()
TempDirSteps ==
    {"extract_sqlite_databases", "create_sample_databases", "download_databases",
     "_create_sample_database_structure"}

\* the step that does so only in its fallback, when the download failed
FallbackTempDirSteps == {"load_mini_dev_dataset"}

\* the call of the finally clause
FinalCall(program) == IF program = "downloader" THEN "cleanup" ELSE "close"

PositionOf(steps, step) == CHOOSE i \in 1..Len(steps) : steps[i] = step

\* the statements that can follow a completed step: the next one of the
\* text, but for the tests of db_paths in the full loader's main, of
\* 'sample_db' in the data test loader's (the fallback made the sample) and
\* of the answer to the prompt
StepsAfter(program, step, db_paths, temp_dir) ==
    LET steps == TrySteps[program]
        i == PositionOf(steps, step)
    IN  IF program = "full_loader" /\ step = "extract_sqlite_databases" /\ db_paths # "empty"
        THEN {"load_database_schemas"}
        ELSE IF program = "full_loader" /\ step = "_check_local_bird_databases"
                /\ db_paths = "empty"
        THEN {"process_bird_data"}
        ELSE IF step = "load_mini_dev_dataset" /\ temp_dir = "exists"
        THEN {"create_tables_from_sqlite"}
        ELSE IF step = "input" THEN {steps[i + 1], "return 0"}
        ELSE IF i = Len(steps) THEN {"return 0"}
        ELSE {steps[i + 1]}

MnInit ==
    /\ mn_program \in Programs
    /\ mn_pc = TrySteps[mn_program][1]
    /\ mn_conn = "None"
    /\ mn_cursor = "None"
    /\ mn_temp_dir = "None"
    /\ mn_db_paths = "unbound"
    /\ mn_io = <<>>
    /\ mn_exception = "none"
    /\ mn_returns = "none"

\* control after a completed step: the next statement, or the finally
\* clause on the way to return 0
Proceed(step, db_paths, temp_dir) ==
    \E after \in StepsAfter(mn_program, step, db_paths, temp_dir) :
        IF after = "return 0"
        THEN mn_pc' = "finally" /\ mn_returns' = "0"
        ELSE mn_pc' = after /\ UNCHANGED mn_returns

\* control after an exception in the try block: except Exception, return 1,
\* through the finally clause
Caught(exception) ==
    /\ mn_exception' = exception
    /\ mn_returns' = "1"
    /\ mn_pc' = "finally"

\* if not loader.connect(): return 1.  connect catches every exception and
\* returns False, with self.conn unset when connect() failed and set when
\* only conn.cursor() failed.
Connect ==
    /\ mn_pc = "connect"
    /\ mn_io' = Append(mn_io, "connect")
    /\ \/ /\ mn_conn' = "open"
          /\ mn_cursor' = "open"
          /\ Proceed("connect", mn_db_paths, mn_temp_dir)
       \/ /\ mn_conn' \in {"None", "open"}
          /\ mn_cursor' = "None"
          /\ mn_returns' = "1"
          /\ mn_pc' = "finally"
    /\ UNCHANGED <<mn_program, mn_temp_dir, mn_db_paths, mn_exception, otherThanMn>>

\* db_paths = loader.extract_sqlite_databases(mini_dataset, livesql_dataset):
\* makes the temporary directory and returns the databases it verified, none
\* when every method found none
ExtractSqliteDatabases ==
    /\ mn_pc = "extract_sqlite_databases"
    /\ mn_temp_dir' = "exists"
    /\ mn_db_paths' \in {"empty", "found"}
    /\ mn_io' = Append(mn_io, "extract_sqlite_databases")
    /\ Proceed("extract_sqlite_databases", mn_db_paths', mn_temp_dir')
    /\ UNCHANGED <<mn_program, mn_conn, mn_cursor, mn_exception, otherThanMn>>

\* if not db_paths: db_paths = loader._check_local_bird_databases(): the
\* attribute lookup raises AttributeError when the class has no such method
CheckLocalBirdDatabases ==
    /\ mn_pc = "_check_local_bird_databases"
    /\ mn_io' = Append(mn_io, "_check_local_bird_databases")
    /\ IF "_check_local_bird_databases" \in ClassAttributes[mn_program]
       THEN /\ mn_db_paths' \in {"empty", "found"}
            /\ Proceed("_check_local_bird_databases", mn_db_paths', mn_temp_dir)
            /\ UNCHANGED mn_exception
       ELSE /\ Caught("AttributeError")
            /\ UNCHANGED mn_db_paths
    /\ UNCHANGED <<mn_program, mn_conn, mn_cursor, mn_temp_dir, otherThanMn>>

\* any other statement of the try block: it completes, or raises unless the
\* method catches every exception itself
RunStep ==
    /\ mn_pc \in {TrySteps[mn_program][i] : i \in 1..Len(TrySteps[mn_program])}
    /\ mn_pc \notin {"connect", "extract_sqlite_databases", "_check_local_bird_databases"}
    /\ mn_io' = Append(mn_io, mn_pc)
    /\ \/ /\ mn_temp_dir' \in
                 IF mn_pc \in TempDirSteps THEN {"exists"}
                 ELSE IF mn_pc \in FallbackTempDirSteps THEN {mn_temp_dir, "exists"}
                 ELSE {mn_temp_dir}
          /\ Proceed(mn_pc, mn_db_paths, mn_temp_dir')
          /\ UNCHANGED mn_exception
       \/ /\ ~Swallows(mn_program, mn_pc)
          /\ Caught("Exception")
          /\ mn_temp_dir' \in
                 IF mn_pc \in TempDirSteps \cup FallbackTempDirSteps
                 THEN {mn_temp_dir, "exists"} ELSE {mn_temp_dir}
    /\ UNCHANGED <<mn_program, mn_conn, mn_cursor, mn_db_paths, otherThanMn>>

\* a close() that ends with conn.close(), as that of the classes without a
\* temporary directory
CloseOperationsWithoutCleanup(program, cursor, conn, temp_dir) ==
    (IF cursor # "None" THEN <<"cursor.close">> ELSE <<>>)
    \o (IF conn # "None" THEN <<"conn.close">> ELSE <<>>)

\* what close() does, in order: cursor.close() and conn.close() when set,
\* then, in the classes that have a temporary directory, its removal when
\* it exists
CloseOperations(program, cursor, conn, temp_dir) ==
    (IF cursor # "None" THEN <<"cursor.close">> ELSE <<>>)
    \o (IF conn # "None" THEN <<"conn.close">> ELSE <<>>)
    \o (IF "temp_dir" \in ClassAttributes[program] /\ temp_dir = "exists"
        THEN <<"rmtree">> ELSE <<>>)

\* finally: loader.close() (downloader.cleanup() in the downloader), then
\* the pending return
CloseLoader ==
    LET operations == CloseOperations(mn_program, mn_cursor, mn_conn, mn_temp_dir)
        done(operation) == \E i \in 1..Len(operations) : operations[i] = operation
    IN  /\ mn_pc = "finally"
        /\ mn_io' = Append(mn_io, FinalCall(mn_program)) \o operations
        /\ mn_cursor' = IF done("cursor.close") THEN "closed" ELSE mn_cursor
        /\ mn_conn' = IF done("conn.close") THEN "closed" ELSE mn_conn
        /\ mn_temp_dir' = IF done("rmtree") THEN "removed" ELSE mn_temp_dir
        /\ mn_pc' = "exited"
        /\ UNCHANGED <<mn_program, mn_db_paths, mn_exception, mn_returns, otherThanMn>>

MnNext ==
    \/ Connect
    \/ ExtractSqliteDatabases
    \/ CheckLocalBirdDatabases
    \/ RunStep
    \/ CloseLoader

MainInit ==
    /\ MnInit
    /\ ClIdle
    /\ CvIdle
    /\ MapIdle
    /\ ScIdle
    /\ DlIdle
    /\ LdIdle
    /\ ExIdle
    /\ DwIdle

MainSpec == MainInit /\ [][MnNext]_vars

(***************************************************************************)
(* BirdDatabaseDownloader.download_databases.  A database file is the      *)
(* record of its db_id (the stem of its name) and of the source whose      *)
(* archive it was extracted from.                                          *)
(***************************************************************************)
\* self.download_sources, by name
download_sources == <<"Aliyun OSS (Official)", "Google Drive (Backup)">>

\* the database files an archive can hold
ArchiveDbIds == {"alpha", "beta"}

DwInit ==
    /\ dw_pc = "start"
    /\ dw_archives \in [1..Len(download_sources) -> SUBSET ArchiveDbIds]
    /\ dw_source = 0
    /\ dw_outcomes = <<>>
    /\ dw_extracted = {}
    /\ dw_db_paths = {}
    /\ dw_manual = FALSE

\* the entry of download_databases: a fresh temporary directory, an empty
\* db_paths, the loop at the first source
StartDownloadDatabases ==
    /\ dw_pc = "start"
    /\ dw_pc' = "loop"
    /\ dw_source' = 1
    /\ dw_extracted' = {}
    /\ dw_db_paths' = {}
    /\ UNCHANGED <<dw_archives, dw_outcomes, dw_manual, otherThanDw>>

\* zip_ref.extractall(extract_path): the members written under
\* temp_dir/extracted replace the files of the same name, the other files
\* stay
ExtractAll(extracted, members, source) ==
    {f \in extracted : f.db_id \notin members}
    \cup {[db_id |-> db_id, source |-> source] : db_id \in members}

\* the outcome of one source: what _download_from_source returned or that
\* it raised, with the files it left under temp_dir/extracted
Outcome(source, success, paths, raised, extracted) ==
    [source |-> source, success |-> success, paths |-> paths, raised |-> raised,
     extracted |-> extracted]

\* _download_from_source on the source the loop is at: every way it can end
SourceOutcomes(source, extracted) ==
    \* an exception out of _download_from_source
    {Outcome(source, FALSE, {}, TRUE, extracted)}
    \* _download_file returned False
    \cup {Outcome(source, FALSE, {}, FALSE, extracted)}
    \* extractall raised after it had written some members
    \cup {Outcome(source, FALSE, {}, FALSE, ExtractAll(extracted, members, source)) :
             members \in SUBSET dw_archives[source]}
    \* the archive was extracted: _find_sqlite_databases walks
    \* temp_dir/extracted, _copy_databases_to_final_location copies what it
    \* found and returns the files it could copy
    \cup (LET found == ExtractAll(extracted, dw_archives[source], source)
          IN  {Outcome(source, found # {}, copied, FALSE, found) :
                  copied \in SUBSET found})

\* one iteration of the loop over self.download_sources
DownloadFromSource ==
    /\ dw_pc = "loop"
    /\ \E outcome \in SourceOutcomes(dw_source, dw_extracted) :
          /\ dw_outcomes' = Append(dw_outcomes, outcome)
          /\ dw_extracted' = outcome.extracted
          /\ IF outcome.success /\ outcome.paths # {}
             THEN /\ dw_db_paths' = dw_db_paths \cup outcome.paths
                  /\ dw_pc' = "after_loop"
                  /\ UNCHANGED dw_source
             ELSE /\ UNCHANGED dw_db_paths
                  /\ dw_source' = dw_source + 1
                  /\ dw_pc' = IF dw_source = Len(download_sources)
                              THEN "after_loop" ELSE "loop"
    /\ UNCHANGED <<dw_archives, dw_manual, otherThanDw>>

\* after the loop: the manual instructions when db_paths is empty, and the
\* return of db_paths
FinishDownloadDatabases ==
    /\ dw_pc = "after_loop"
    /\ dw_manual' = (dw_db_paths = {})
    /\ dw_pc' = "returned"
    /\ UNCHANGED <<dw_archives, dw_source, dw_outcomes, dw_extracted, dw_db_paths,
                   otherThanDw>>

DwNext ==
    \/ StartDownloadDatabases
    \/ DownloadFromSource
    \/ FinishDownloadDatabases

DownloadInit ==
    /\ DwInit
    /\ ClIdle
    /\ CvIdle
    /\ MapIdle
    /\ ScIdle
    /\ DlIdle
    /\ LdIdle
    /\ ExIdle
    /\ MnIdle

DownloadSpec == DownloadInit /\ [][DwNext]_vars

(***************************************************************************)
(* Properties of map_all_databases and analyze_database_file (Spec).       *)
(***************************************************************************)
\* results['databases'] of the call in progress or just ended
Databases ==
    IF "databases" \in DOMAIN mapping_results THEN mapping_results.databases ELSE <<>>

\* C1: map_all_databases attempts every file of the directory and returns a
\* result with domain_summary and complexity_analysis, whatever domain each
\* database is classified into; no exception ends the batch.
C1_BatchNeverAborts ==
    /\ map_pc # "raised"
    /\ (map_pc = "returned" /\ DOMAIN mapping_results # {}) =>
           /\ file_index = Len(sqlite_files)
           /\ mapping_results.total_databases = Len(sqlite_files)
           /\ DOMAIN mapping_results.complexity_analysis # {}

\* C2: the fixture database (customers, accounts), analysed under the db_id
\* "sample_financial", is classified "financial".
C2_FixtureIsFinancial ==
    \A i \in 1..Len(Databases) :
        Databases[i].db_id = "sample_financial" => Databases[i].domain = "financial"

\* C4: once an extraction call has returned, the SQLite connection it opened
\* is closed, on the success path and on every failure path.
C4_NoConnectionLeftOpen == open_connections = {}

\* the tables of a file whose introspection statements SQLite accepts
ReadableTables(file) ==
    {file.tables[k].name : k \in {n \in 1..Len(file.tables) :
                                      UnquotedNameParses(file.tables[n].name)}}

\* C5: when introspection of one table fails inside an otherwise readable
\* database, the catalog of that database is still produced and holds the
\* details of all its other tables.
C5_PartialCatalogKept ==
    \A i \in 1..file_index :
        LET file == sqlite_files[i]
        IN  (file.valid /\ Cardinality(ReadableTables(file)) < Len(file.tables)) =>
                \E j \in 1..Len(Databases) :
                    /\ Databases[j].db_id = file.stem
                    /\ ReadableTables(file) \subseteq
                           {Databases[j].table_details[k][1] :
                               k \in 1..Len(Databases[j].table_details)}

\* the positions of the listing whose file analyze_database_file fails on
FailedFiles ==
    {i \in 1..Len(sqlite_files) : AnalysisOf[sqlite_files[i]].returns = "None"}

\* the catalogs of the files of the listing that can be analysed, in listing
\* order
AnalysableResults ==
    LET analysable == SelectSeq(sqlite_files, LAMBDA f : AnalysisOf[f].returns = "dict")
    IN  [i \in 1..Len(analysable) |-> AnalysisOf[analysable[i]].result]

\* C14: a call whose listing holds a file that cannot be opened or queried
\* still analyses every file and returns; results['databases'] holds the
\* catalogs of the other files in listing order, total_databases counts all
\* files, and their difference is the number of failures.
C14_FailedFileSkippedBatchContinues ==
    (map_pc \in {"returned", "raised"} /\ FailedFiles # {}) =>
        /\ map_pc = "returned"
        /\ file_index = Len(sqlite_files)
        /\ Databases = AnalysableResults
        /\ mapping_results.total_databases = Len(sqlite_files)
        /\ mapping_results.total_databases - Len(Databases) = Cardinality(FailedFiles)

\* the domain_summary of the result, <<>> while there is none
DomainSummary ==
    IF "domain_summary" \in DOMAIN mapping_results
    THEN mapping_results.domain_summary ELSE <<>>

\* C15: in the result of every call, the count and the databases of each
\* summarised domain are the number and the db_ids of this call's
\* results['databases'] of that domain, however many calls came before.
C15_SummaryCountsThisCallOnly ==
    map_pc = "returned" =>
        \A i \in 1..Len(DomainSummary) :
            LET domain == DomainSummary[i][1]
                entry == DomainSummary[i][2]
                domain_dbs == DomainDbs(Databases, domain)
            IN  /\ entry.count = Len(domain_dbs)
                /\ entry.databases = [k \in 1..Len(domain_dbs) |-> domain_dbs[k].db_id]

\* C16: the db_ids of the entries of results['databases'] are pairwise
\* distinct within a run.
C16_DbIdsDistinct ==
    \A i, j \in 1..Len(Databases) : Databases[i].db_id = Databases[j].db_id => i = j

\* C19: every foreign key a catalog records names a target table that the
\* same catalog holds.
C19_ForeignKeyTargetsExist ==
    \A i \in 1..Len(Databases) :
        \A t \in 1..Len(Databases[i].table_details) :
            LET foreign_keys == Databases[i].table_details[t][2].foreign_keys
            IN  \A k \in 1..Len(foreign_keys) :
                    \E n \in 1..Len(Databases[i].tables) :
                        Databases[i].tables[n] = foreign_keys[k][2]

\* the file a catalog was extracted from
SourceFile(db) == CHOOSE file \in FilePool : FileName(file) = db.file_path

\* C20: in every catalog, table_count is the number of table names listed,
\* total_columns, total_foreign_keys and total_rows are the sums over the
\* tables of their columns, foreign keys and row_count, and each row_count
\* is the number of rows the table holds in the file; the two-table fixture
\* yields 2 tables, 5 columns and 1 foreign key.
C20_AggregatesAgree ==
    \A i \in 1..Len(Databases) :
        LET db == Databases[i]
            details == db.table_details
            file == SourceFile(db)
        IN  /\ db.table_count = Len(db.tables)
            /\ db.tables = [t \in 1..Len(details) |-> details[t][1]]
            /\ db.tables = [t \in 1..Len(file.tables) |-> file.tables[t].name]
            /\ db.total_columns = SumSeq([t \in 1..Len(details) |-> Len(details[t][2].columns)])
            /\ db.total_foreign_keys =
                   SumSeq([t \in 1..Len(details) |-> Len(details[t][2].foreign_keys)])
            /\ db.total_foreign_keys =
                   SumSeq([t \in 1..Len(file.tables) |-> Len(file.tables[t].foreign_keys)])
            /\ db.total_rows = SumSeq([t \in 1..Len(details) |-> details[t][2].row_count])
            /\ \A t \in 1..Len(details) : details[t][2].row_count = file.tables[t].row_count
            /\ file = FixtureDb =>
                   /\ db.table_count = 2
                   /\ db.total_columns = 5
                   /\ db.total_foreign_keys = 1

\* the fixture has been analysed, next to a second database
C20_Witness ==
    /\ Len(Databases) = 2
    /\ \E i \in 1..2 :
          /\ Databases[i].db_id = "sample_financial"
          /\ Databases[i].table_count = 2
          /\ Databases[i].total_columns = 5
          /\ Databases[i].total_foreign_keys = 1
          /\ Databases[i].total_rows = 5

(***************************************************************************)
(* Properties of classify_database (ClassifySpec).                         *)
(***************************************************************************)
SetOf(seq) == {seq[i] : i \in 1..Len(seq)}

KeywordSet(domain) == SetOf(domain_keywords[domain])

PatternSet(domain) ==
    IF domain \in DOMAIN table_patterns THEN SetOf(table_patterns[domain]) ELSE {}

\* how many strings of S are substrings of the lower-cased name
Hits(S, name) == Cardinality({k \in S : Contains(k, Lower(name))})

\* the score the scoring rules give a domain on the call's arguments
RuleScore(domain) ==
    10 * Hits(KeywordSet(domain), cl_db_id)
    + SumSeq([i \in 1..Len(cl_table_names) |->
                 5 * Hits(PatternSet(domain), cl_table_names[i])
                 + 3 * Hits(KeywordSet(domain), cl_table_names[i])])
    + SumSeq([i \in 1..Len(cl_column_names) |->
                 Hits(KeywordSet(domain), cl_column_names[i])])

\* C6: every domain's score is 10 per keyword in the db_id, plus, per table
\* name, 5 per table pattern and 3 per keyword in it, plus, per column name
\* counted with repetition, 1 per keyword in it.
C6_ScoreFollowsRules ==
    cl_pc = "return" => \A domain \in Domains : domain_scores[domain] = RuleScore(domain)

\* a call in which a db_id keyword, a table pattern, a table keyword and a
\* repeated column name all score for one domain
C6_Witness ==
    /\ cl_pc = "return"
    /\ Len(cl_column_names) >= 2
    /\ cl_column_names[1] = cl_column_names[2]
    /\ \E domain \in Domains :
          /\ Hits(KeywordSet(domain), cl_db_id) > 0
          /\ \E i \in 1..Len(cl_table_names) :
                /\ Hits(PatternSet(domain), cl_table_names[i]) > 0
                /\ Hits(KeywordSet(domain), cl_table_names[i]) > 0
          /\ Hits(KeywordSet(domain), cl_column_names[1]) > 0

\* position of a domain in the taxonomy's definition order
OrderIndex(domain) == CHOOSE i \in 1..Len(DomainOrder) : DomainOrder[i] = domain

TopScore == MaxScore(domain_scores)

\* C7: the result is "general" exactly when the maximum score is zero;
\* otherwise it is a domain of maximum score, the first such domain in the
\* taxonomy's definition order.
C7_FirstMaximalDomainOrGeneral ==
    cl_pc = "return" =>
        /\ (cl_domain = "general") <=> (TopScore = 0)
        /\ cl_domain # "general" =>
              /\ cl_domain \in Domains
              /\ domain_scores[cl_domain] = TopScore
              /\ \A other \in Domains :
                    domain_scores[other] = TopScore =>
                        OrderIndex(cl_domain) <= OrderIndex(other)

\* a call in which two domains share a non-zero maximum
C7_Witness ==
    /\ cl_pc = "return"
    /\ TopScore > 0
    /\ \E d1, d2 \in Domains :
          d1 # d2 /\ domain_scores[d1] = TopScore /\ domain_scores[d2] = TopScore

AllKeywords == UNION {KeywordSet(domain) : domain \in Domains}
AllPatterns == UNION {PatternSet(domain) : domain \in Domains}

\* no taxonomy keyword occurs in the db_id, a table name or a column name
NoKeywordAnywhere ==
    /\ Hits(AllKeywords, cl_db_id) = 0
    /\ \A i \in 1..Len(cl_table_names) : Hits(AllKeywords, cl_table_names[i]) = 0
    /\ \A i \in 1..Len(cl_column_names) : Hits(AllKeywords, cl_column_names[i]) = 0

\* no table pattern occurs in a table name
NoPatternInTables ==
    \A i \in 1..Len(cl_table_names) : Hits(AllPatterns, cl_table_names[i]) = 0

\* C8 as stated: when no keyword occurs in the db_id, the table names or the
\* column names, the result is "general" and every score is 0.
C8_NoKeywordGivesGeneral ==
    (cl_pc = "return" /\ NoKeywordAnywhere) =>
        /\ cl_domain = "general"
        /\ \A domain \in Domains : domain_scores[domain] = 0

\* C8 amended: when no keyword occurs in the db_id, the table names or the
\* column names and no table pattern occurs in a table name, the result is
\* "general" and every score is 0.
C8_NoKeywordNoPatternGivesGeneral ==
    (cl_pc = "return" /\ NoKeywordAnywhere /\ NoPatternInTables) =>
        /\ cl_domain = "general"
        /\ \A domain \in Domains : domain_scores[domain] = 0

\* a call with table and column names, none of them matching
C8_Witness ==
    /\ cl_pc = "return"
    /\ cl_table_names # <<>>
    /\ cl_column_names # <<>>
    /\ NoKeywordAnywhere
    /\ NoPatternInTables

\* C9: classify_database("city_bank_accounts") with no table and no column
\* names returns "financial": financial and government tie on the maximum
\* and financial comes first in the taxonomy.
C9_CityBankIsFinancial ==
    (cl_pc = "return" /\ cl_db_id = "city_bank_accounts"
        /\ cl_table_names = <<>> /\ cl_column_names = <<>>) =>
        /\ cl_domain = "financial"
        /\ domain_scores["financial"] = TopScore
        /\ domain_scores["government"] = TopScore
        /\ OrderIndex("financial") < OrderIndex("government")

C9_Witness ==
    /\ cl_pc = "return"
    /\ cl_db_id = "city_bank_accounts"
    /\ cl_table_names = <<>>
    /\ cl_column_names = <<>>
    /\ cl_domain = "financial"

(***************************************************************************)
(* Properties of classify_database on a used instance (InstanceSpec).      *)
(***************************************************************************)
\* C23: classify_database is a function of its arguments alone: the calls
\* made with equal arguments return the same domain, the one a fresh
\* instance returns, whatever calls of map_all_databases were made before
\* them; the keywords the classifier reads stay those of __init__, and a
\* call changes neither the 'keywords' nor the 'databases' lists.
C23_ClassifierIsPure ==
    /\ [](/\ \A a, b \in cl_returns : a.domain = b.domain
          /\ \A a \in cl_returns :
                 a.domain = classify_database(cl_db_id, cl_table_names, cl_column_names)
          /\ mapping_keywords = domain_keywords)
    /\ [][(Classify \/ ClassifyAgain) =>
              UNCHANGED <<mapping_keywords, domain_databases>>]_vars

\* a call made before any map_all_databases call and a call made after one
\* that appended to a 'databases' list
C23_Witness ==
    /\ cl_pc = "return"
    /\ \E a, b \in cl_returns : a.calls = 0 /\ b.calls = calls /\ calls > 0
    /\ \E d \in Domains : domain_databases[d] # <<>>

(***************************************************************************)
(* Properties of the type converters (ConvertSpec).                        *)
(***************************************************************************)
\* the declared types of the form VARCHAR(n) or DECIMAL(p,s), in any casing
IsParameterised(declared) ==
    \/ Upper(declared) \in {"VARCHAR(" \o DecimalStr(n) \o ")" : n \in Widths}
    \/ Upper(declared) \in
           {"DECIMAL(" \o DecimalStr(p) \o "," \o DecimalStr(sc) \o ")" :
               p \in Widths, sc \in Scales}

Called(converter) ==
    /\ converter \in DOMAIN cv_snowflake_type
    /\ cv_snowflake_type[converter] # NotCalled

\* C3: every converter returns a declared type of the form VARCHAR(n) or
\* DECIMAL(p,s) unchanged, casing and parameters included.
C3_ParameterisedPassThrough ==
    \A converter \in Converters :
        (Called(converter) /\ IsParameterised(cv_sqlite_type)) =>
            cv_snowflake_type[converter] = cv_sqlite_type

\* a fixed-precision numeric type: NUMERIC(p,s) or DECIMAL(p,s)
IsFixedPrecision(type) ==
    \/ SubSeq(type, 1, 8) = "NUMERIC("
    \/ SubSeq(type, 1, 8) = "DECIMAL("

\* C10: every converter maps INTEGER to INTEGER, TEXT to VARCHAR(16777216),
\* REAL to FLOAT, NUMERIC and DECIMAL to a fixed-precision numeric type and
\* BLOB to VARIANT.
C10_BasicTypeTable ==
    \A converter \in Converters :
        Called(converter) =>
            /\ cv_sqlite_type = "INTEGER" => cv_snowflake_type[converter] = "INTEGER"
            /\ cv_sqlite_type = "TEXT" =>
                   cv_snowflake_type[converter] = "VARCHAR(16777216)"
            /\ cv_sqlite_type = "REAL" => cv_snowflake_type[converter] = "FLOAT"
            /\ cv_sqlite_type \in {"NUMERIC", "DECIMAL"} =>
                   IsFixedPrecision(cv_snowflake_type[converter])
            /\ cv_sqlite_type = "BLOB" => cv_snowflake_type[converter] = "VARIANT"

\* the type_mapping dict of a converter
TypeMappingOf(converter) ==
    IF converter = "mapper" THEN MapperTypeMapping ELSE LoaderTypeMapping

\* no key of the converter's type_mapping is a substring of the upper-cased
\* declared type
NoKeywordMatches(converter, declared) ==
    \A i \in 1..Len(TypeMappingOf(converter)) :
        ~Contains(TypeMappingOf(converter)[i][1], Upper(declared))

\* the strings a converter can return for a declared type: a value of its
\* type_mapping, the default, or the declared type itself
ReturnValues(converter, declared) ==
    {TypeMappingOf(converter)[i][2] : i \in 1..Len(TypeMappingOf(converter))}
    \cup {"VARCHAR(16777216)", declared}

\* C11: every converter returns a type string for every declared type, the
\* empty string and unknown names included, and returns VARCHAR(16777216)
\* when no key of its type_mapping occurs in the upper-cased declared type.
C11_TotalWithFallback ==
    \A converter \in Converters :
        Called(converter) =>
            /\ cv_snowflake_type[converter] \in ReturnValues(converter, cv_sqlite_type)
            /\ Len(cv_snowflake_type[converter]) > 0
            /\ NoKeywordMatches(converter, cv_sqlite_type) =>
                   cv_snowflake_type[converter] = "VARCHAR(16777216)"

\* all three converters have answered for a column declared without a type
C11_Witness ==
    /\ cv_sqlite_type = ""
    /\ \A converter \in Converters :
          /\ Called(converter)
          /\ NoKeywordMatches(converter, cv_sqlite_type)
          /\ cv_snowflake_type[converter] = "VARCHAR(16777216)"

\* whether the converter hands the declared type back before it looks at its
\* type_mapping
PassedThrough(converter, declared) ==
    /\ converter # "mapper"
    /\ \/ Contains("VARCHAR(", Upper(declared))
       \/ Contains("DECIMAL(", Upper(declared))

\* the positions of the type_mapping whose key occurs in the upper-cased
\* declared type
MatchingKeys(converter, declared) ==
    {i \in 1..Len(TypeMappingOf(converter)) :
        Contains(TypeMappingOf(converter)[i][1], Upper(declared))}

\* C25: a converter that does not pass the declared type through returns
\* the value of the first key of its type_mapping, in definition order, that
\* occurs in the upper-cased declared type, whatever later keys occur in it.
C25_FirstKeywordWins ==
    \A converter \in Converters :
        (Called(converter) /\ ~PassedThrough(converter, cv_sqlite_type)) =>
            \A i \in MatchingKeys(converter, cv_sqlite_type) :
                (\A j \in MatchingKeys(converter, cv_sqlite_type) : i <= j)
                    => cv_snowflake_type[converter] = TypeMappingOf(converter)[i][2]

\* both loaders' converters have answered for a declared type in which two
\* keys with different values occur, with the value of the earlier key
C25_Witness ==
    /\ cv_sqlite_type = "datetime"
    /\ \A converter \in {"mini_loader", "data_test"} :
          /\ Called(converter)
          /\ ~PassedThrough(converter, cv_sqlite_type)
          /\ \E i, j \in MatchingKeys(converter, cv_sqlite_type) :
                /\ i < j
                /\ TypeMappingOf(converter)[i][2] # TypeMappingOf(converter)[j][2]
          /\ cv_snowflake_type[converter] = "DATE"

\* C26: every key of a converter's type_mapping, given as the declared type,
\* is mapped to the value listed for that key.
C26_NoEntryShadowed ==
    \A converter \in Converters :
        Called(converter) =>
            \A i \in 1..Len(TypeMappingOf(converter)) :
                cv_sqlite_type = TypeMappingOf(converter)[i][1]
                    => cv_snowflake_type[converter] = TypeMappingOf(converter)[i][2]

(***************************************************************************)
(* Properties of _calculate_complexity_score (ScoreSpec).                  *)
(***************************************************************************)
\* ten times the score, as Python evaluates  score * 10
TenTimesScore == FloatMul(sc_score, FloatOfInt(10))

\* 10 * tables + columns + 20 * foreign_keys
ScoreInTenths == (10 * sc_tables) + sc_columns + (20 * sc_foreign_keys)

\* C17: the score is exactly tables * 1.0 + columns * 0.1 + foreign_keys *
\* 2.0 for all counts: ten times the score equals 10 * tables + columns +
\* 20 * foreign_keys, and 3 tables, 20 columns and 2 foreign keys give 9.0.
C17_ScoreIsExact ==
    sc_pc = "return" =>
        /\ TenTimesScore = FloatOfInt(ScoreInTenths)
        /\ (sc_tables = 3 /\ sc_columns = 20 /\ sc_foreign_keys = 2) =>
               sc_score = FloatOfInt(9)

(***************************************************************************)
(* Properties of the CREATE TABLE text (DdlSpec).                          *)
(***************************************************************************)
EndsWith(s, suffix) ==
    Len(suffix) <= Len(s) /\ SubSeq(s, Len(s) - Len(suffix) + 1, Len(s)) = suffix

\* the lines of a text, split at its newline characters
Lines(text) ==
    LET newlines == {i \in 1..Len(text) : CharAt(text, i) = "\n"}
        n == Cardinality(newlines)
        cut(k) == IF k = 0 THEN 0
                  ELSE IF k = n + 1 THEN Len(text) + 1
                  ELSE CHOOSE p \in newlines : Cardinality({q \in newlines : q < p}) = k - 1
    IN  [k \in 1..(n + 1) |-> SubSeq(text, cut(k - 1) + 1, cut(k) - 1)]

\* the clauses of a CREATE TABLE statement: the lines between its first and
\* its last line, without the comma that separates one from the next
Clauses(text) ==
    LET lines == Lines(text)
        n == Len(lines) - 2
    IN  [i \in 1..n |->
            IF i < n /\ EndsWith(lines[i + 1], ",")
            THEN SubSeq(lines[i + 1], 1, Len(lines[i + 1]) - 1)
            ELSE lines[i + 1]]

\* the table identifier: what the first line holds between the CREATE words
\* and the opening parenthesis
TableIdentifier(text) ==
    SubSeq(Lines(text)[1], Len("CREATE OR REPLACE TABLE ") + 1, Len(Lines(text)[1]) - Len(" ("))

DdlCalled(generator) ==
    /\ generator \in DOMAIN dl_ddl
    /\ dl_ddl[generator] # NotCalled

\* C12: the statement has one column clause per column of the source table,
\* in the source order, each opening with the upper-cased column name; the
\* table identifier is upper-cased and ends with the table's name; a clause
\* ends with PRIMARY KEY exactly when the catalog flags its column.
C12_OneClausePerColumn ==
    \A generator \in DdlGenerators :
        DdlCalled(generator) =>
            LET text == dl_ddl[generator]
                clauses == Clauses(text)
            IN  /\ StartsWith(text, "CREATE OR REPLACE TABLE ")
                /\ EndsWith(Lines(text)[1], " (")
                /\ Upper(TableIdentifier(text)) = TableIdentifier(text)
                /\ EndsWith(TableIdentifier(text), "_" \o Upper(dl_table.name))
                /\ Len(clauses) = Len(dl_table.columns)
                /\ \A i \in 1..Len(clauses) :
                      /\ StartsWith(clauses[i], "    " \o Upper(dl_table.columns[i].name) \o " ")
                      /\ EndsWith(clauses[i], " PRIMARY KEY") <=> dl_table.columns[i].pk

\* all three generators have answered for a table of two columns with
\* lower-case letters in their names, the first a primary key, the second not
C12_Witness ==
    /\ \A generator \in DdlGenerators : DdlCalled(generator)
    /\ Len(dl_table.columns) = 2
    /\ dl_table.columns[1].pk
    /\ ~dl_table.columns[2].pk
    /\ \A i \in 1..2 : Upper(dl_table.columns[i].name) # dl_table.columns[i].name
    /\ Upper(dl_table.name) # dl_table.name

\* the words that open a table-level constraint clause
TableConstraintOpeners == {"CONSTRAINT", "PRIMARY KEY", "FOREIGN KEY", "UNIQUE", "CHECK"}

IsTableConstraint(clause) ==
    \E opener \in TableConstraintOpeners :
        \/ StartsWith(clause, "    " \o opener \o " ")
        \/ StartsWith(clause, "    " \o opener \o "(")

\* C13: no statement holds a foreign-key clause or any table-level
\* constraint clause, whatever foreign keys the table has, and a primary key
\* over k columns appears as k column-level PRIMARY KEY markers.
C13_NoConstraintClauses ==
    \A generator \in DdlGenerators :
        DdlCalled(generator) =>
            LET text == dl_ddl[generator]
                clauses == Clauses(text)
            IN  /\ ~Contains("FOREIGN KEY", text)
                /\ ~Contains("REFERENCES", text)
                /\ ~Contains("PRIMARY KEY (", text)
                /\ \A i \in 1..Len(clauses) : ~IsTableConstraint(clauses[i])
                /\ Cardinality({i \in 1..Len(clauses) : EndsWith(clauses[i], " PRIMARY KEY")})
                       = Cardinality({i \in 1..Len(dl_table.columns) : dl_table.columns[i].pk})

\* all three generators have answered for a table with a foreign key and a
\* primary key over two columns
C13_Witness ==
    /\ \A generator \in DdlGenerators : DdlCalled(generator)
    /\ dl_table.foreign_keys # <<>>
    /\ Cardinality({i \in 1..Len(dl_table.columns) : dl_table.columns[i].pk}) = 2
    /\ \A generator \in DdlGenerators :
          Cardinality({i \in 1..Len(Clauses(dl_ddl[generator])) :
                          EndsWith(Clauses(dl_ddl[generator])[i], " PRIMARY KEY")}) = 2

(***************************************************************************)
(* Properties of the table-loading runs (LoadSpec).                        *)
(***************************************************************************)
\* the tables a run has to go through: those of the databases that open, in
\* the order of the two loops
RECURSIVE AllTables(_)
AllTables(dbs) ==
    IF dbs = <<>> THEN <<>>
    ELSE (IF Head(dbs).valid
          THEN [i \in 1..Len(Head(dbs).tables) |-> <<Head(dbs).stem, Head(dbs).tables[i].name>>]
          ELSE <<>>)
         \o AllTables(Tail(dbs))

\* the tables whose iteration the run has made
Attempted == [k \in 1..Len(ld_attempts) |-> <<ld_attempts[k].db, ld_attempts[k].table>>]

IsPrefix(a, b) == Len(a) <= Len(b) /\ SubSeq(b, 1, Len(a)) = a

\* the error lines of one scope, as <<db, table>>
ErrorLines(scope) ==
    LET lines == SelectSeq(ld_errors, LAMBDA e : e.scope = scope)
    IN  [k \in 1..Len(lines) |-> <<lines[k].db, lines[k].table>>]

\* the failed table iterations, as <<db, table>>
FailedAttempts ==
    LET failed == SelectSeq(ld_attempts, LAMBDA a : a.outcome = "failed")
    IN  [k \in 1..Len(failed) |-> <<failed[k].db, failed[k].table>>]

\* C18: a table whose creation or load fails gets one error line of its own
\* and nothing else: no database-level error is logged for it, the run is not
\* ended by it, no table is skipped after it, and a run that is not cut
\* short by max_tables goes through every table of every database that
\* opens.
C18_TableFailureIsLocal ==
    /\ ErrorLines("table") = FailedAttempts
    /\ \A k \in 1..Len(ld_errors) :
          ld_errors[k].scope = "database" =>
              \E i \in 1..Len(ld_databases) :
                  ld_databases[i].stem = ld_errors[k].db /\ ~ld_databases[i].valid
    /\ IsPrefix(Attempted, AllTables(ld_databases))
    /\ (ld_pc \in {"done", "raised"} /\ ~LimitReached) =>
           \/ Attempted = AllTables(ld_databases)
           \/ ld_exception = "DatabaseError"
    /\ ld_exception = "DatabaseError" =>
           /\ ld_loader = "data_test"
           /\ ~ld_databases[ld_db_index + 1].valid

\* a finished run in which a warehouse operation failed on a table that
\* SQLite reads, and a later table of the same database and a table of a
\* later database were gone through all the same
C18_Witness ==
    /\ ld_pc = "done"
    /\ ~LimitReached
    /\ \E k \in 1..Len(ld_attempts) :
          /\ ld_attempts[k].outcome = "failed"
          /\ UnquotedNameParses(ld_attempts[k].table)
          /\ \E n \in (k + 1)..Len(ld_attempts) : ld_attempts[n].db = ld_attempts[k].db
          /\ \E n \in (k + 1)..Len(ld_attempts) : ld_attempts[n].db # ld_attempts[k].db

\* the file of the run whose stem is db_id
LoadedFile(db_id) ==
    ld_databases[CHOOSE i \in 1..Len(ld_databases) : ld_databases[i].stem = db_id]

\* the table of that file named table_name
SourceTable(db_id, table_name) ==
    LET tables == LoadedFile(db_id).tables
    IN  tables[CHOOSE i \in 1..Len(tables) : tables[i].name = table_name]

\* C22: one quoting policy: every table that load_database_schemas recorded
\* in the metadata (its name was accepted by the statements of
\* analyze_sqlite_database) is read by load_database_data when the warehouse
\* does not fail, and its database is analysed by the mapper's
\* analyze_database_file.
C22_OneQuotingPolicy ==
    \A k \in 1..Len(ld_table_info) :
        /\ TableOutcome("full_loader",
                        SourceTable(ld_table_info[k].db_id, ld_table_info[k].table_name),
                        "none") = "loaded"
        /\ analyze_database_file(LoadedFile(ld_table_info[k].db_id)).returns = "dict"

\* the name of the warehouse table a loader writes a source table to:
\* f"BIRD_{db_id}_{table_name}".upper() in the full loader,
\* f"BIRD_{db_name.upper()}_{table_name.upper()}" in the other two
WarehouseTableName(loader, db_id, table_name) ==
    IF loader = "full_loader" THEN Upper("BIRD_" \o db_id \o "_" \o table_name)
    ELSE SnowflakeTableName(db_id, table_name)

\* C30: two tables loaded in one run from different (db_id, table name)
\* pairs are written to warehouse tables of different names, so that no
\* load of the run replaces the table of another source table.
C30_DistinctSourcesDistinctNames ==
    \A i, j \in 1..Len(ld_loaded) :
        ld_loaded[i] # ld_loaded[j] =>
            WarehouseTableName(ld_loader, ld_loaded[i][1], ld_loaded[i][2])
                # WarehouseTableName(ld_loader, ld_loaded[j][1], ld_loaded[j][2])

(***************************************************************************)
(* Properties of the examination of a candidate file (ExtractSpec).        *)
(***************************************************************************)
DatabaseOperations == {"connect", "execute", "close"}

\* C21: no connection is opened and no statement issued on a candidate file
\* before its first bytes were compared with the SQLite magic header, and a
\* file whose header is not the magic is rejected with no database operation
\* made on it.
C21_HeaderCheckedBeforeAnyQuery ==
    /\ \A i \in 1..Len(ex_io) :
           ex_io[i] \in DatabaseOperations
               => \E j \in 1..(i - 1) : ex_io[j] = "read_header"
    /\ ~IsSqliteFile(ex_file)
           => /\ \A i \in 1..Len(ex_io) : ex_io[i] \notin DatabaseOperations
              /\ ex_pc = "done" => ex_outcome = "rejected"

(***************************************************************************)
(* Properties of generate_snowflake_schema_script (Spec).                  *)
(***************************************************************************)
\* the first line of the statement that creates the table of a database
CreateTableLine(db_id, table_name) ==
    "CREATE OR REPLACE TABLE " \o Upper(db_id \o "_" \o table_name) \o " ("

\* the (database, table) positions of the results of a call
ResultTables(databases) ==
    UNION {{<<i, j>> : j \in 1..Len(databases[i].table_details)} :
              i \in 1..Len(databases)}

\* the statement of position p of the results
ResultLine(databases, p) ==
    CreateTableLine(databases[p[1]].db_id, databases[p[1]].table_details[p[2]][1])

\* whether line n of the script lies in the schema of the domain: a CREATE
\* SCHEMA and then a USE SCHEMA of the domain precede it, and no other USE
\* SCHEMA stands between that one and the line
InSchemaOf(lines, n, domain) ==
    \E s \in 1..(n - 1) : \E u \in (s + 1)..(n - 1) :
        /\ lines[s] = "CREATE SCHEMA IF NOT EXISTS BIRD_" \o Upper(domain) \o ";"
        /\ lines[u] = "USE SCHEMA BIRD_" \o Upper(domain) \o ";"
        /\ \A m \in (u + 1)..(n - 1) : ~StartsWith(lines[m], "USE SCHEMA ")

\* C24: the script of the results of a call holds, after the schema
\* statements of its domain, one CREATE TABLE statement for every table of
\* every database of the results, and no other CREATE TABLE statement.
C24_OneStatementPerTable ==
    (schema_script.called /\ schema_script.exception = "none") =>
        LET lines == Lines(schema_script.text)
            databases == mapping_results.databases
            tables == ResultTables(databases)
            statements == {n \in 1..Len(lines) :
                              StartsWith(lines[n], "CREATE OR REPLACE TABLE ")}
        IN  /\ Cardinality(statements) = Cardinality(tables)
            /\ \A p \in tables :
                   /\ Cardinality({n \in statements : lines[n] = ResultLine(databases, p)})
                          = Cardinality({q \in tables :
                                ResultLine(databases, q) = ResultLine(databases, p)})
                   /\ \A n \in statements :
                          lines[n] = ResultLine(databases, p)
                              => InSchemaOf(lines, n, databases[p[1]].domain)

(***************************************************************************)
(* Properties of the main functions (MainSpec).                            *)
(***************************************************************************)
\* the positions of an operation in the record of the run
PositionsOf(operation) == {i \in 1..Len(mn_io) : mn_io[i] = operation}

Done(operation) == PositionsOf(operation) # {}

\* C27: a run of the full loader's main in which extract_sqlite_databases
\* yields no database and no step fails writes the questions to
\* BIRD_QUESTIONS, creates the views, validates the load and returns 0.
C27_NoDatabasesQuestionsOnly ==
    (/\ mn_program = "full_loader"
     /\ mn_pc = "exited"
     /\ Done("extract_sqlite_databases")
     /\ mn_db_paths = "empty"
     /\ mn_exception # "Exception") =>
        /\ Done("write_pandas")
        /\ Done("create_enhanced_views")
        /\ Done("validate_comprehensive_load")
        /\ mn_returns = "0"

\* C29: in every main the call of the finally clause (close, cleanup in the
\* downloader) is made at most once and exactly once when main has exited,
\* whatever the exit path; nothing is sent to Snowflake after it; it touches
\* no connection when none was established; and no temporary directory
\* exists after it.
C29_ClosedOnceOnEveryPath ==
    LET closes == PositionsOf(FinalCall(mn_program))
    IN  /\ Cardinality(closes) <= 1
        /\ mn_pc = "exited" => Cardinality(closes) = 1
        /\ \A c \in closes : \A i \in (c + 1)..Len(mn_io) :
               mn_io[i] \notin SnowflakeSteps \cup {"connect"}
        /\ (mn_pc = "exited" /\ mn_conn = "None") =>
               ~Done("cursor.close") /\ ~Done("conn.close")
        /\ mn_pc = "exited" =>
               /\ mn_temp_dir # "exists"
               /\ mn_conn # "open"
               /\ mn_cursor # "open"

\* main has exited through the except clause after the temporary directory
\* was made, and the directory was removed
C29_Witness ==
    /\ mn_pc = "exited"
    /\ mn_exception # "none"
    /\ mn_returns = "1"
    /\ mn_temp_dir = "removed"
    /\ Done("rmtree")
    /\ Cardinality(PositionsOf(FinalCall(mn_program))) = 1

(***************************************************************************)
(* Properties of download_databases (DownloadSpec).                        *)
(***************************************************************************)
\* whether the outcome makes the loop stop: success with at least one path
Working(outcome) == outcome.success /\ outcome.paths # {}

\* C28: the sources are tried in their listed order; no source is tried
\* after one that succeeded with at least one database; the call returns
\* the paths of that source, or, when every source failed, no path after
\* showing the manual instructions; the files returned come from at most
\* one source.
C28_FirstWorkingSourceOnly ==
    /\ \A k \in 1..Len(dw_outcomes) :
           /\ dw_outcomes[k].source = k
           /\ Working(dw_outcomes[k]) => k = Len(dw_outcomes)
    /\ dw_manual => dw_pc = "returned" /\ dw_db_paths = {}
    /\ dw_pc = "returned" =>
           IF \E k \in 1..Len(dw_outcomes) : Working(dw_outcomes[k])
           THEN /\ dw_db_paths = dw_outcomes[Len(dw_outcomes)].paths
                /\ ~dw_manual
           ELSE /\ Len(dw_outcomes) = Len(download_sources)
                /\ dw_db_paths = {}
                /\ dw_manual
    /\ Cardinality({f.source : f \in dw_db_paths}) <= 1

====
